---------------------------- MODULE Spec2Model ----------------------------
(***************************************************************************)
(* Model of the SF-ORB cognitive synthesis pipeline                        *)
(* (electron/src/orb_controller.py) and of its callers                     *)
(* (electron/src/floating_assistant_orb.py).                               *)
(*                                                                         *)
(* Number representation.  The program computes with floats; the model     *)
(* uses exact integers in fixed units:                                     *)
(*   - prediction confidence, frequency, vivacity: thousandths (0..1000)   *)
(*   - synthesis confidence (convergence score): ten-thousandths           *)
(*   - belief probabilities, strengths, reliabilities, weights: hundredths *)
(*   - thought-vector magnitude: tenths                                    *)
(*   - node coordinates of the spatial index: tenths                       *)
(* Threshold comparisons of quotients are done by cross-multiplication, so *)
(* no rounding enters a comparison.                                        *)
(***************************************************************************)
EXTENDS Integers, Sequences, FiniteSets, TLC

(***************************************************************************)
(* Bounds of the model                                                     *)
(***************************************************************************)
\* number of cognitively_emerge calls explored from a fresh controller
MaxCalls == 3
\* number of direct record_observation calls explored on a fresh tracker
MaxObs == 6
\* number of record_observation calls explored when the heat of a quadrant is
\* followed up to its cap, and how many of them may leave the first quadrant
MaxHeat == 104
MaxMixed == 4
\* number of direct update_physics calls explored on a fresh navigator
MaxMoves == 2
\* number of cognitively_emerge calls explored in a session of cursor
\* movements and text queries
MaxSession == 4

\* the number of stdin lines the message loop of the bridge reads
MaxLines == 3

\* the number of cycles begun by the threads of the bridge
MaxCycles == 3

(***************************************************************************)
(* Program constants                                                       *)
(***************************************************************************)
\* HabitTracker.__init__: deque(maxlen=5)
BufferCapacity == 5
\* HabitTracker._coords_to_quadrant: 1920 / 2 and 1080 / 2
grid_x == 960
grid_y == 540
\* IntuitiveRecognizer.__init__
density_threshold == 50

Quadrants == {"NW", "NE", "SW", "SE"}

Min(a, b) == IF a <= b THEN a ELSE b
Max(a, b) == IF a >= b THEN a ELSE b
Abs(a) == IF a < 0 THEN 0 - a ELSE a

(***************************************************************************)
(* Stimuli.  A stimulus is the dict the callers build: type, coordinates,  *)
(* velocity, content, and the optional meta.test_mode flag, which is       *)
(* "absent", "True" (the Python object True) or "truthy" (a value such as  *)
(* 1 or "yes" that is truthy and is not the object True); orb_coordinates  *)
(* is <<>> when the key is absent.                                         *)
(***************************************************************************)
StimulusTypes == {"cursor_movement", "text_query", "speech_query", "surveillance_probe"}

Stim(t, c, v, txt, tm) ==
    [ type |-> t, coordinates |-> c, velocity |-> v, content |-> txt, test_mode |-> tm,
      orb_coordinates |-> <<>> ]

\* the stimulus of test_pipeline.py
TestStimulus == Stim("cursor_movement", <<100, 200>>, 5, "", "absent")

CursorStimuli ==
    { TestStimulus,
      Stim("cursor_movement", <<800, 600>>, 50, "", "absent") }

\* the stimuli of the bridge's query and speech paths
TextStimulus == Stim("text_query", <<0, 0>>, 0, "2 + 2 = ?", "absent")

SpeechStimulus == Stim("speech_query", <<0, 0>>, 0, "hello", "absent")

QueryStimuli == {TextStimulus, SpeechStimulus}

ProbeStimuli ==
    { Stim("surveillance_probe", <<0, 0>>, 0, "", tm) : tm \in {"absent", "True", "truthy"} }

Stimuli == CursorStimuli \cup QueryStimuli \cup ProbeStimuli

(***************************************************************************)
(* HabitTracker                                                            *)
(***************************************************************************)
\* _coords_to_quadrant: ["NW", "NE", "SW", "SE"][row * 2 + col]
coords_to_quadrant(coords) ==
    LET col == IF coords[1] < grid_x THEN 0 ELSE 1
        row == IF coords[2] < grid_y THEN 0 ELSE 1
    IN  <<"NW", "NE", "SW", "SE">>[row * 2 + col + 1]

\* _serialize_pattern: "_".join of the quadrant labels.  A string is kept as
\* the sequence of its tokens, the separator "_" being a token between two
\* labels: "NW_NW_SE" is <<"NW", "_", "NW", "_", "SE">>.
RECURSIVE serialize_pattern(_)
serialize_pattern(sequence) ==
    IF Len(sequence) = 0 THEN <<>>
    ELSE IF Len(sequence) = 1 THEN <<sequence[1]>>
    ELSE <<sequence[1], "_">> \o serialize_pattern(Tail(sequence))

\* pattern_key.split("_")
SplitPattern(pattern_key) == SelectSeq(pattern_key, LAMBDA token : token # "_")

\* list(self.sequence_buffer)[-3:]
LastThree(sequence) ==
    IF Len(sequence) <= 3 THEN sequence
    ELSE SubSeq(sequence, Len(sequence) - 2, Len(sequence))

\* a list that is never trimmed
DequeAppend_unbounded(buffer, x) == Append(buffer, x)

\* deque(maxlen=5).append: the oldest entry is dropped when full
DequeAppend(buffer, x) ==
    IF Len(buffer) < BufferCapacity THEN Append(buffer, x)
    ELSE Append(Tail(buffer), x)

\* _extrapolate_next_quadrant: parts[-1] if len(parts) >= 2 else "UNKNOWN"
extrapolate_next_quadrant(pattern_key) ==
    LET parts == SplitPattern(pattern_key)
    IN  IF Len(parts) >= 2 THEN parts[Len(parts)] ELSE "UNKNOWN"

\* a frequency that decays with the count
Frequency_decaying(count) == Max(1000 - count * 100, 0)

\* min(count / 10.0, 1.0), in thousandths
Frequency(count) == Min(count * 100, 1000)

(***************************************************************************)
(* Crystallization store (VaultManager).  Its code is not part of the      *)
(* sources; it is modelled from its interface contract: crystallize(key,   *)
(* record) is an upsert; a record crystallized under a derived string key  *)
(* is what the posteriori cache holds under that key; a record             *)
(* crystallized under a stimulus is what lightning_query returns for an    *)
(* identical stimulus; lightning_query returns None for an unknown one.    *)
(***************************************************************************)
Upsert(f, key, record) ==
    [k \in (DOMAIN f) \cup {key} |-> IF k = key THEN record ELSE f[k]]

\* the empty dict
EmptyMap == [k \in {} |-> 0]

\* f"habit_{pattern_key}"
HabitKey(pattern_key) == <<"habit", "_">> \o pattern_key

NoneValue == [kind |-> "None"]

lightning_query(crystals, stimulus) ==
    IF stimulus \in DOMAIN crystals THEN crystals[stimulus] ELSE NoneValue

(***************************************************************************)
(* HabitTracker operations, as functions of the tracker's state            *)
(***************************************************************************)
\* the key of the last 3 observations
ObservedPatternKey_last_three(buffer) == serialize_pattern(LastThree(buffer))

\* record_observation, line 141: the key is built from the whole buffer
ObservedPatternKey(buffer) == serialize_pattern(buffer)

\* _update_conjunction_frequency: self.pattern_cache[pattern_key]["count"] += 1
IncrementCount(cache, pattern_key) ==
    LET old == IF pattern_key \in DOMAIN cache THEN cache[pattern_key] ELSE 0
    IN  Upsert(cache, pattern_key, old + 1)

\* _update_conjunction_frequency: the record handed to vault.crystallize
HabitRecord(cache, pattern_key) ==
    [ pattern |-> pattern_key,
      frequency |-> Frequency(cache[pattern_key]),
      predicted_next |-> extrapolate_next_quadrant(pattern_key),
      temporal_decay |-> 950 ]

\* record_observation: what the call returns, None for a stimulus that is not
\* a cursor movement and the observation appended otherwise
record_observation(stimulus, now) ==
    IF stimulus.type # "cursor_movement" THEN NoneValue
    ELSE [ quadrant |-> coords_to_quadrant(stimulus.coordinates),
           coords |-> stimulus.coordinates,
           velocity |-> stimulus.velocity,
           timestamp |-> now ]

\* the observation appended whatever the type of the stimulus
RecordObservationResult_any_type(buffer, cache, posteriori, stimulus) ==
    LET b == DequeAppend(buffer, coords_to_quadrant(stimulus.coordinates))
    IN  IF Len(b) >= 3
        THEN LET key == ObservedPatternKey(b)
                 c == IncrementCount(cache, key)
             IN  [ buffer |-> b, cache |-> c,
                   posteriori |-> Upsert(posteriori, HabitKey(key), HabitRecord(c, key)) ]
        ELSE [buffer |-> b, cache |-> cache, posteriori |-> posteriori]

\* record_observation: the tracker and the posteriori cache after the call
RecordObservationResult(buffer, cache, posteriori, stimulus) ==
    IF stimulus.type # "cursor_movement"
    THEN [buffer |-> buffer, cache |-> cache, posteriori |-> posteriori]
    ELSE LET b == DequeAppend(buffer, coords_to_quadrant(stimulus.coordinates))
         IN  IF Len(b) >= 3
             THEN LET key == ObservedPatternKey(b)
                      c == IncrementCount(cache, key)
                  IN  [ buffer |-> b, cache |-> c,
                        posteriori |-> Upsert(posteriori, HabitKey(key), HabitRecord(c, key)) ]
             ELSE [buffer |-> b, cache |-> cache, posteriori |-> posteriori]

NoPrediction ==
    [prediction_type |-> "None", target |-> "None", confidence |-> 0, hume_vivacity |-> 0]

UnsurePrediction ==
    [prediction_type |-> "UNSURE", target |-> "None", confidence |-> 300, hume_vivacity |-> 400]

\* a lookup under the key record_observation writes: the whole buffer
LookupPatternKey_whole_buffer(buffer) == serialize_pattern(buffer)

\* predict_next, line 148: the key looked up is built from the last 3 observations
LookupPatternKey(buffer) == serialize_pattern(LastThree(buffer))

\* a prediction made only when a habit record is found
predict_next_found_only(buffer, posteriori) ==
    IF Len(buffer) < 3 THEN NoPrediction
    ELSE LET key == HabitKey(LookupPatternKey(buffer))
         IN  IF key \in DOMAIN posteriori
             THEN [ prediction_type |-> "QUADRANT_TRANSITION",
                    target |-> posteriori[key].predicted_next,
                    confidence |-> posteriori[key].frequency,
                    hume_vivacity |-> Min((posteriori[key].frequency * 12) \div 10, 1000) ]
             ELSE NoPrediction

\* predict_next
predict_next(buffer, posteriori) ==
    IF Len(buffer) < 3 THEN NoPrediction
    ELSE LET key == HabitKey(LookupPatternKey(buffer))
         IN  IF key \in DOMAIN posteriori
             THEN [ prediction_type |-> "QUADRANT_TRANSITION",
                    target |-> posteriori[key].predicted_next,
                    confidence |-> posteriori[key].frequency,
                    hume_vivacity |-> Min((posteriori[key].frequency * 12) \div 10, 1000) ]
             ELSE UnsurePrediction

RECURSIVE SumCounts(_, _)
SumCounts(cache, keys) ==
    IF keys = {} THEN 0
    ELSE LET k == CHOOSE x \in keys : TRUE
         IN  cache[k] + SumCounts(cache, keys \ {k})

\* the heat without its cap
get_quadrant_heat_uncapped(cache, quadrant_code) ==
    LET hit == {k \in DOMAIN cache : \E i \in 1..Len(k) : k[i] = quadrant_code}
    IN  SumCounts(cache, hit) * 10

\* get_quadrant_heat: min(heat / 100.0, 1.0), in thousandths
get_quadrant_heat(cache, quadrant_code) ==
    LET hit == {k \in DOMAIN cache : \E i \in 1..Len(k) : k[i] = quadrant_code}
    IN  Min(SumCounts(cache, hit) * 10, 1000)

(***************************************************************************)
(* Belief updater (BayesianEngine).  bayesian_engine.py is not part of the *)
(* sources; it is modelled from the contract of section 4.1 of the         *)
(* specification.  A probability is an integer number of hundredths; a     *)
(* posterior is kept as the exact fraction num / den (in hundredths).      *)
(***************************************************************************)
Hypotheses == {"habit_continues", "jump_necessary", "guard_sufficient"}

Minds == {"locke", "hume", "kant", "spinoza"}

\* f"{mind_name}_pattern_persistence"
PersistenceHypothesis(mind_name) ==
    CASE mind_name = "locke" -> "locke_pattern_persistence"
      [] mind_name = "hume" -> "hume_pattern_persistence"
      [] mind_name = "kant" -> "kant_pattern_persistence"
      [] mind_name = "spinoza" -> "spinoza_pattern_persistence"

Bayes(p, e) == [priors |-> p, evidence |-> e]

\* setPrior(hypothesis, probability, strength)
set_prior(bayes, hyp, prob, strength) ==
    Bayes( Upsert(bayes.priors, hyp, [probability |-> prob, strength |-> strength]),
           IF hyp \in DOMAIN bayes.evidence THEN bayes.evidence
           ELSE Upsert(bayes.evidence, hyp, {}) )

\* addEvidence: nothing is recorded for a hypothesis without a prior, and an
\* evidence id already recorded for the hypothesis is not overwritten
add_evidence(bayes, hyp, evidence_id, likelihood, reliability) ==
    IF hyp \notin DOMAIN bayes.priors THEN bayes
    ELSE IF \E e \in bayes.evidence[hyp] : e.id = evidence_id THEN bayes
    ELSE Bayes( bayes.priors,
                Upsert(bayes.evidence, hyp,
                       bayes.evidence[hyp] \cup
                         {[id |-> evidence_id, likelihood |-> likelihood,
                           reliability |-> reliability]}) )

RECURSIVE SumOver(_, _)
SumOver(S, field) ==
    IF S = {} THEN 0
    ELSE LET e == CHOOSE x \in S : TRUE
         IN  (IF field = "weighted" THEN e.likelihood * e.reliability ELSE e.reliability)
             + SumOver(S \ {e}, field)

Fraction(n, d) == [num |-> n, den |-> d]

ZeroFraction == Fraction(0, 1)

\* posterior(hypothesis): the reliability-weighted mean of the likelihoods,
\* the prior counting as one item weighted by its strength; the prior when
\* there is no evidence or no weight; 0 (None or 0.0) without a prior
calculate_posterior(bayes, hyp) ==
    IF hyp \notin DOMAIN bayes.priors THEN ZeroFraction
    ELSE LET p == bayes.priors[hyp]
             ev == bayes.evidence[hyp]
             den == p.strength + SumOver(ev, "reliability")
         IN  IF ev = {} \/ den = 0 THEN Fraction(p.probability, 1)
             ELSE Fraction(p.probability * p.strength + SumOver(ev, "weighted"), den)

\* fraction > t, t in hundredths
Exceeds(fraction, t) == fraction.num > t * fraction.den

\* updateWithOutcome: the prior moves toward 1.0 (success) or 0.0 (failure)
\* by the fraction weight of the remaining distance
update_with_outcome(bayes, hyp, success, weight) ==
    IF hyp \notin DOMAIN bayes.priors THEN bayes
    ELSE LET p == bayes.priors[hyp].probability
             q == IF success THEN p + (weight * (100 - p)) \div 100
                  ELSE p - (weight * p) \div 100
         IN  Bayes( Upsert(bayes.priors, hyp,
                           [probability |-> Max(0, Min(100, q)),
                            strength |-> bayes.priors[hyp].strength]),
                    bayes.evidence )

EmptyBayes == Bayes(EmptyMap, EmptyMap)

\* seed_priors of _initialize_bayesian_priors
SeedProbability(hyp) ==
    CASE hyp = "habit_continues" -> 60
      [] hyp = "jump_necessary" -> 30
      [] hyp = "guard_sufficient" -> 70

SeedStrength(hyp) ==
    CASE hyp = "habit_continues" -> 120
      [] hyp = "jump_necessary" -> 80
      [] hyp = "guard_sufficient" -> 150

\* evidence ids: f"seed_{hyp}" is <<-1, hyp>>, f"stim_{ms}_{mind}" is <<ms, mind>>
SeedEvidenceId(hyp) == <<-1, hyp>>

StimEvidenceId(ms, mind_name) == <<ms, mind_name>>

SeedOne(bayes, hyp) ==
    LET b == set_prior(bayes, hyp, SeedProbability(hyp), SeedStrength(hyp))
    IN  add_evidence(b, hyp, SeedEvidenceId(hyp), SeedProbability(hyp), 1)

\* _initialize_bayesian_priors
initialize_bayesian_priors ==
    LET b1 == SeedOne(EmptyBayes, "habit_continues")
        b2 == SeedOne(b1, "jump_necessary")
    IN  SeedOne(b2, "guard_sufficient")

\* the evidence of every perspective added to habit_continues
UpdateOneShadow_shared(bayes, ms, mind_name, shadow) ==
    add_evidence(bayes, "habit_continues", StimEvidenceId(ms, mind_name), shadow.confidence,
                 shadow.reliability)

\* _update_bayesian_shadows, one perspective
UpdateOneShadow(bayes, ms, mind_name, shadow) ==
    LET hyp == PersistenceHypothesis(mind_name)
        b == IF hyp \notin DOMAIN bayes.priors THEN set_prior(bayes, hyp, 50, 100) ELSE bayes
    IN  add_evidence(b, hyp, StimEvidenceId(ms, mind_name), shadow.confidence,
                     shadow.reliability)

RECURSIVE UpdateShadows(_, _, _, _)
UpdateShadows(bayes, ms, shadows, minds) ==
    IF minds = {} THEN bayes
    ELSE LET m == CHOOSE x \in minds : TRUE
             b == UpdateOneShadow(bayes, ms, m, shadows[m])
         IN  UpdateShadows(b, ms, shadows, minds \ {m})

\* _update_bayesian_shadows: the belief state after the evidence of every
\* perspective is added (the perspectives touch different hypotheses, so the
\* order of the loop does not matter)
update_bayesian_shadows(bayes, ms, shadows) ==
    UpdateShadows(bayes, ms, shadows, DOMAIN shadows)

\* _update_bayesian_shadows: bayes_view[mind] = posterior or likelihood
bayes_view(bayes, shadows) ==
    [ m \in DOMAIN shadows |->
        LET post == calculate_posterior(bayes, PersistenceHypothesis(m))
        IN  IF post.num = 0 THEN Fraction(shadows[m].confidence, 1) ELSE post ]

(***************************************************************************)
(* Spatial index (hlsf_singleton).  Its code is not part of the sources;   *)
(* it is modelled from its interface: a field map of nodes, each with      *)
(* coordinates, the two thresholds, and the breach density the engine      *)
(* records when it purges.  The field map is kept as the number of live    *)
(* nodes at each of four coordinate points (tenths).                       *)
(***************************************************************************)
NodeClasses == {"origin", "right", "left", "far"}

NodeCoordinates(c) ==
    CASE c = "origin" -> <<0, 0>>
      [] c = "right" -> <<10, 0>>
      [] c = "left" -> <<-10, 0>>
      [] c = "far" -> <<50, 70>>

FieldOf(o, r, l, f) ==
    [c \in NodeClasses |->
        CASE c = "origin" -> o [] c = "right" -> r [] c = "left" -> l [] c = "far" -> f]

EmptyField == FieldOf(0, 0, 0, 0)

\* field maps the engine is observed with: two nodes; sixty nodes at one
\* point (every pair mirrors); sixty nodes of which about half of the pairs
\* mirror; a dense field with a few stray nodes
SparseField == FieldOf(0, 1, 1, 0)

SymmetricField == FieldOf(60, 0, 0, 0)

DenseField == FieldOf(0, 30, 30, 0)

StrayField == FieldOf(56, 0, 0, 2)

\* len(self.hlsf.field_map)
FieldCount(field_map) ==
    field_map["origin"] + field_map["right"] + field_map["left"] + field_map["far"]

(***************************************************************************)
(* IntuitiveRecognizer                                                     *)
(***************************************************************************)
\* abs(c1[0] + c2[0]) < 0.2 and abs(c1[1] - c2[1]) < 0.2
Mirror(c1, c2) == Abs(c1[1] + c2[1]) < 2 /\ Abs(c1[2] - c2[2]) < 2

\* the pairs (i < j) of nodes counted by the double loop, by coordinate point
MirrorPairs(field_map, a, b) ==
    IF ~Mirror(NodeCoordinates(a), NodeCoordinates(b)) THEN 0
    ELSE IF a = b THEN (field_map[a] * (field_map[a] - 1)) \div 2
    ELSE field_map[a] * field_map[b]

MirrorCount(field_map) ==
    MirrorPairs(field_map, "origin", "origin") + MirrorPairs(field_map, "right", "right")
    + MirrorPairs(field_map, "left", "left") + MirrorPairs(field_map, "far", "far")
    + MirrorPairs(field_map, "origin", "right") + MirrorPairs(field_map, "origin", "left")
    + MirrorPairs(field_map, "origin", "far") + MirrorPairs(field_map, "right", "left")
    + MirrorPairs(field_map, "right", "far") + MirrorPairs(field_map, "left", "far")

\* _calculate_bilateral_symmetry: mirror_count / total_pairs, 0.0 below 2 nodes
calculate_bilateral_symmetry(field_map) ==
    LET n == FieldCount(field_map)
    IN  IF n < 2 THEN ZeroFraction
        ELSE Fraction(MirrorCount(field_map), (n * (n - 1)) \div 2)

\* _calculate_substance_vector: the centroid's first two coordinates (tenths,
\* rounded down)
calculate_substance_vector(field_map) ==
    LET n == FieldCount(field_map)
        sum(i) == field_map["origin"] * NodeCoordinates("origin")[i]
                  + field_map["right"] * NodeCoordinates("right")[i]
                  + field_map["left"] * NodeCoordinates("left")[i]
                  + field_map["far"] * NodeCoordinates("far")[i]
    IN  IF n = 0 THEN <<0, 0>> ELSE <<sum(1) \div n, sum(2) \div n>>

\* the threshold taken as 0.8
AboveSymmetryThreshold_lower(score) == 10 * score.num > 8 * score.den

\* symmetry_score > self.symmetry_threshold (0.9)
AboveSymmetryThreshold(score) == 10 * score.num > 9 * score.den

\* check_necessity
check_necessity(field_map) ==
    LET field_density == FieldCount(field_map)
        symmetry_score == calculate_bilateral_symmetry(field_map)
    IN  IF field_density > density_threshold /\ AboveSymmetryThreshold(symmetry_score)
        THEN [ jump_triggered |-> TRUE,
               necessity_vector |-> calculate_substance_vector(field_map),
               substance_unity_score |-> symmetry_score,
               bypass_steps |-> field_density \div 10,
               spinozan_certainty |-> 98,
               field_density |-> field_density ]
        ELSE [ jump_triggered |-> FALSE,
               necessity_vector |-> <<>>,
               substance_unity_score |-> symmetry_score,
               bypass_steps |-> 0,
               spinozan_certainty |-> 0,
               field_density |-> field_density ]

(***************************************************************************)
(* Mode synthesizer                                                        *)
(***************************************************************************)
Modes == {"GUARD", "GUARD-HABIT", "HABIT", "INTUITION-JUMP"}

\* the state dict of _synthesize_logic_triad; a key the code did not set is
\* FALSE, 0, <<>>, NoPrediction or the empty map
InitialLogicState(effective_density) ==
    [ field_density |-> effective_density,
      active_mode |-> "GUARD",
      intuitive_jump_triggered |-> FALSE,
      necessity_vector |-> <<>>,
      spinozan_certainty |-> 0,
      substance_unity_score |-> ZeroFraction,
      inductive_prediction |-> NoPrediction,
      hume_vivacity |-> 0,
      custom_habit_active |-> FALSE,
      bayes_attached |-> FALSE,
      bayes_habit_prob |-> ZeroFraction,
      bayes_jump_prob |-> ZeroFraction,
      bayes_guard_prob |-> ZeroFraction,
      epistemic_bayes |-> EmptyMap,
      density_penalty |-> 0 ]

\* a jump that sets the mode and records nothing of the detector's result
JumpState_mode_only(state, intuitive) ==
    [state EXCEPT !.intuitive_jump_triggered = TRUE, !.active_mode = "INTUITION-JUMP"]

\* lines 628-638: the necessity jump returns at once
JumpState(state, intuitive) ==
    [state EXCEPT !.intuitive_jump_triggered = TRUE,
                  !.necessity_vector = intuitive.necessity_vector,
                  !.spinozan_certainty = intuitive.spinozan_certainty,
                  !.active_mode = "INTUITION-JUMP",
                  !.substance_unity_score = intuitive.substance_unity_score]

\* the update applied whether or not there is a prediction
InductiveState_unguarded(state, inductive) ==
    [state EXCEPT !.inductive_prediction = inductive,
                  !.hume_vivacity = inductive.hume_vivacity,
                  !.custom_habit_active = (inductive.confidence > 350),
                  !.active_mode = IF inductive.confidence > 350 THEN "HABIT"
                                  ELSE "GUARD-HABIT"]

\* lines 639-648: if inductive: (None is falsy)
InductiveState(state, inductive) ==
    IF inductive = NoPrediction THEN state
    ELSE [state EXCEPT !.inductive_prediction = inductive,
                       !.hume_vivacity = inductive.hume_vivacity,
                       !.custom_habit_active = (inductive.confidence > 350),
                       !.active_mode = IF inductive.confidence > 350 THEN "HABIT"
                                       ELSE "GUARD-HABIT"]

\* lines 649-659
PosteriorState(state, habit_post, jump_post, guard_post, bayes_shadows) ==
    [state EXCEPT !.bayes_attached = TRUE,
                  !.bayes_habit_prob = habit_post,
                  !.bayes_jump_prob = jump_post,
                  !.bayes_guard_prob = guard_post,
                  !.epistemic_bayes = bayes_shadows]

\* the rule left out
PurgeRule_skipped(state, purge_threshold) == state

\* lines 662-668: GUARD invalidated at the purge trigger threshold
PurgeRule(state, purge_threshold) ==
    IF state.active_mode \in {"GUARD", "GUARD-HABIT"}
       /\ state.field_density >= purge_threshold
    THEN [state EXCEPT !.active_mode = "GUARD-HABIT", !.density_penalty = 10]
    ELSE state

\* the rule left out
EmergencyRule_skipped(state, max_density) == state

\* lines 669-675: density >= self.engine.max_field_density * 0.95
EmergencyRule(state, max_density) ==
    IF state.field_density * 100 >= max_density * 95
       /\ state.active_mode # "INTUITION-JUMP"
    THEN [state EXCEPT !.active_mode = "INTUITION-JUMP", !.density_penalty = 15]
    ELSE state

\* the rule left out
HabitPosteriorRule_skipped(state, habit_post) == state

\* lines 676-677
HabitPosteriorRule(state, habit_post) ==
    IF state.active_mode \in {"GUARD", "GUARD-HABIT"} /\ Exceeds(habit_post, 55)
    THEN [state EXCEPT !.active_mode = "HABIT"]
    ELSE state

\* the rule applied to GUARD and GUARD-HABIT only
JumpPosteriorRule_guard_only(state, jump_post) ==
    IF state.active_mode \in {"GUARD", "GUARD-HABIT"} /\ Exceeds(jump_post, 45)
    THEN [state EXCEPT !.active_mode = "INTUITION-JUMP"]
    ELSE state

\* lines 678-679
JumpPosteriorRule(state, jump_post) ==
    IF state.active_mode # "INTUITION-JUMP" /\ Exceeds(jump_post, 45)
    THEN [state EXCEPT !.active_mode = "INTUITION-JUMP"]
    ELSE state

\* _synthesize_logic_triad.  engine is [live, breach, purge, max]: the live
\* node count, last_density_breach and the two thresholds; posts is the
\* three posteriors read from the belief updater
synthesize_logic_triad(inductive, intuitive, bayes_shadows, engine, posts) ==
    LET state == InitialLogicState(Max(engine.live, engine.breach))
        induced == InductiveState(state, inductive)
        attached == PosteriorState(induced, posts.habit, posts.jump, posts.guard,
                                   bayes_shadows)
        purged == PurgeRule(attached, engine.purge)
        emergency == EmergencyRule(purged, engine.max)
        habitual == HabitPosteriorRule(emergency, posts.habit)
    IN  IF intuitive.jump_triggered THEN JumpState(state, intuitive)
        ELSE JumpPosteriorRule(habitual, posts.jump)

(***************************************************************************)
(* Convergence scorer, verdict table, outcome feedback                     *)
(***************************************************************************)
\* no cap
ClampConfidence_uncapped(base) == base

\* min(base, 0.99), in ten-thousandths
ClampConfidence(base) == Min(base, 9900)

\* the bonus chosen by the resolved mode instead of the two flags
calculate_convergence_by_mode(n_shadows, logic, vec_magnitude) ==
    ClampConfidence(
        8500
        + (IF logic.active_mode = "INTUITION-JUMP" THEN 1400
           ELSE IF logic.active_mode = "HABIT" THEN 800 ELSE 0)
        + (IF n_shadows >= 3 THEN 200 ELSE 0)
        + Min(vec_magnitude, 200) )

\* _calculate_convergence; n_shadows is len(shadows), vec_magnitude is the
\* sum of the absolute components of the thought vector in tenths, so that
\* vec_magnitude * 0.001 is vec_magnitude ten-thousandths
calculate_convergence(n_shadows, logic, vec_magnitude) ==
    ClampConfidence(
        8500
        + (IF logic.intuitive_jump_triggered THEN 1400
           ELSE IF logic.custom_habit_active THEN 800 ELSE 0)
        + (IF n_shadows >= 3 THEN 200 ELSE 0)
        + Min(vec_magnitude, 200) )

\* a table that spells the mixed mode with an underscore
verdict_from_mode_underscore(mode) ==
    CASE mode = "INTUITION-JUMP" -> "escalate"
      [] mode = "HABIT" -> "act"
      [] mode = "GUARD_HABIT" -> "monitor"
      [] OTHER -> "no_act"

\* _verdict_from_mode
verdict_from_mode(mode) ==
    CASE mode = "INTUITION-JUMP" -> "escalate"
      [] mode = "HABIT" -> "act"
      [] mode = "GUARD-HABIT" -> "monitor"
      [] OTHER -> "no_act"

\* shadows.get(mind, {}).get("confidence", 0.5)
ShadowConfidence(shadows, mind_name) ==
    IF mind_name \in DOMAIN shadows THEN shadows[mind_name].confidence ELSE 50

\* the perspectives of core_4 that carry an advisory verdict, and the mind
\* whose shadow each reads (lines 485-487)
CorePerspectives == {"caleon", "kaygee", "cali_x_one"}

CoreMind(perspective) ==
    CASE perspective = "caleon" -> "spinoza"
      [] perspective = "kaygee" -> "kant"
      [] perspective = "cali_x_one" -> "hume"

\* _build_core_4_returns: the three entries with an advisory verdict (the ecm
\* entry holds convergence weights and the shadows, no verdict)
build_core_4_returns(shadows, logic_state) ==
    [ perspective \in CorePerspectives |->
        [ confidence |-> ShadowConfidence(shadows, CoreMind(perspective)),
          advisory_verdict |-> verdict_from_mode(logic_state.active_mode) ] ]

DeliberationSource == "UCM Core-4 deliberation (ECM advisory only)"

\* _build_correlation_envelope: core_4, the final verdict, its source and the
\* confidence (the tension diagnostics and the reflection hold no verdict)
build_correlation_envelope(shadows, logic_state, confidence) ==
    [ core_4 |-> build_core_4_returns(shadows, logic_state),
      final_verdict |-> verdict_from_mode(logic_state.active_mode),
      final_verdict_source |-> DeliberationSource,
      confidence |-> confidence ]

\* habit success taken from the mode alone
OutcomeSuccess_by_mode(logic_state) ==
    LET mode == logic_state.active_mode
        success == mode \in {"HABIT", "GUARD-HABIT"}
        jump_success == mode = "INTUITION-JUMP" /\ logic_state.intuitive_jump_triggered
    IN  [ habit |-> success, jump |-> jump_success,
          guard |-> (mode = "GUARD" /\ ~success /\ ~jump_success) ]

\* _update_bayesian_outcome: the three success predicates
OutcomeSuccess(logic_state) ==
    LET mode == logic_state.active_mode
        success == mode \in {"HABIT", "GUARD-HABIT"}
                   /\ logic_state.inductive_prediction.confidence > 400
        jump_success == mode = "INTUITION-JUMP" /\ logic_state.intuitive_jump_triggered
    IN  [ habit |-> success, jump |-> jump_success,
          guard |-> (mode = "GUARD" /\ ~success /\ ~jump_success) ]

\* guard_sufficient succeeding whenever the jump did not
OutcomeCalls_guard_unless_jump(logic_state) ==
    LET s == OutcomeSuccess(logic_state)
    IN  << [hypothesis |-> "habit_continues", success |-> s.habit, weight |-> 70],
           [hypothesis |-> "jump_necessary", success |-> s.jump, weight |-> 60],
           [hypothesis |-> "guard_sufficient", success |-> ~s.jump, weight |-> 50] >>

\* _update_bayesian_outcome: the update_with_outcome calls it makes, in order
OutcomeCalls(logic_state) ==
    LET s == OutcomeSuccess(logic_state)
    IN  << [hypothesis |-> "habit_continues", success |-> s.habit, weight |-> 70],
           [hypothesis |-> "jump_necessary", success |-> s.jump, weight |-> 60],
           [hypothesis |-> "guard_sufficient", success |-> s.guard, weight |-> 50] >>

\* _update_bayesian_outcome: the belief updater after the calls
RECURSIVE FeedOutcomes(_, _)
FeedOutcomes(bayes, calls) ==
    IF calls = <<>> THEN bayes
    ELSE FeedOutcomes(update_with_outcome(bayes, calls[1].hypothesis, calls[1].success,
                                          calls[1].weight),
                      Tail(calls))

\* _update_bayesian_outcome
update_bayesian_outcome(bayes, logic_state) == FeedOutcomes(bayes, OutcomeCalls(logic_state))

\* a check that takes any test_mode value for True
check_sovereignty_truthy(stimulus) ==
    stimulus.test_mode # "absent" \/ stimulus.type # "surveillance_probe"

\* _check_sovereignty
check_sovereignty(stimulus) ==
    IF stimulus.test_mode = "True" THEN TRUE
    ELSE IF stimulus.type = "surveillance_probe" THEN FALSE
    ELSE TRUE

(***************************************************************************)
(* ProprioceptionSystem                                                    *)
(***************************************************************************)
\* update_physics(current_pos, dt): dt in tenths of a second, velocity in
\* pixels per second
update_physics(pos, current_pos, dt) ==
    [ position |-> current_pos,
      velocity |-> IF dt > 0
                   THEN <<((current_pos[1] - pos[1]) * 10) \div dt,
                          ((current_pos[2] - pos[2]) * 10) \div dt>>
                   ELSE <<0, 0>> ]

(***************************************************************************)
(* External responses of one cycle: the shadows of the tribunal (a map     *)
(* from perspective to confidence and reliability, hundredths) and the     *)
(* magnitude of the thought vector of the neighbours (tenths).             *)
(***************************************************************************)
FullShadows == [m \in Minds |-> [confidence |-> 80, reliability |-> 100]]

TwoShadows == [m \in {"hume", "kant"} |-> [confidence |-> 40, reliability |-> 50]]

\* the responses a cycle is run with: a magnitude of 30.0 is above the cap of
\* the scorer (20.0), one of 5.0 below it
Responses ==
    { [shadows |-> FullShadows, magnitude |-> 0],
      [shadows |-> TwoShadows, magnitude |-> 50],
      [shadows |-> FullShadows, magnitude |-> 300] }

(***************************************************************************)
(* State                                                                   *)
(***************************************************************************)
VARIABLES
    sequence_buffer,          \* HabitTracker.sequence_buffer (quadrant labels)
    pattern_cache,            \* HabitTracker.pattern_cache: key -> count
    posteriori_cache,         \* vault.posteriori_cache: habit key -> record
    crystals,                 \* the vault's records keyed by stimulus
    bayes,                    \* BayesianEngine: priors and evidence
    proprioception,           \* ProprioceptionSystem: position, velocity
    field_map,                \* engine.field_map (node counts)
    last_density_breach,      \* engine.last_density_breach
    purge_trigger_threshold,  \* engine.purge_trigger_threshold
    max_field_density,        \* engine.max_field_density
    clock,                    \* time in milliseconds; one call is made per millisecond
    shadow_calls,             \* stimulus -> number of generate_epistemic_shadow calls for it
    last,                     \* the last call: its stimulus, what it returned, the outcomes it fed
    predicted,                \* pattern -> confidence of the last predict_next for it
    observed,                 \* number of cursor observations recorded so far
    arrivals,                 \* the quadrant of every cursor observation, in arrival order
    direct,                   \* a direct call of a pure method: its arguments and result
    threads,                  \* the cycle each thread of the bridge is in
    bridge                    \* the bridge process: main loop, speech thread, stdin, stdout

vars ==
    << sequence_buffer, pattern_cache, posteriori_cache, crystals, bayes,
       proprioception, field_map, last_density_breach, purge_trigger_threshold,
       max_field_density, clock, shadow_calls, last, predicted, observed, arrivals, direct,
       threads, bridge >>

tracker_vars == <<sequence_buffer, pattern_cache, posteriori_cache>>

other_vars == <<direct, threads, bridge>>

engine_vars ==
    <<field_map, last_density_breach, purge_trigger_threshold, max_field_density>>

\* the engines the controller is constructed over: the field map, the purge
\* trigger threshold and the maximal field density
Engines ==
    { [field_map |-> EmptyField, purge |-> 55, max |-> 100],
      [field_map |-> SparseField, purge |-> 2, max |-> 100],
      [field_map |-> SymmetricField, purge |-> 55, max |-> 100],
      [field_map |-> DenseField, purge |-> 55, max |-> 60] }

NoCall == [kind |-> "init", stimulus |-> NoneValue, value |-> NoneValue, outcomes |-> <<>>]

\* the threads of the bridge process: the stdin message loop and the speech
\* recognition thread
Threads == {"main", "speech"}

\* record_observation, lines 127-138: a cursor stimulus arrives as an
\* observation of its quadrant, anything else is not an observation
Arrived(history, stimulus) ==
    IF stimulus.type = "cursor_movement"
    THEN Append(history, coords_to_quadrant(stimulus.coordinates))
    ELSE history

Idle == [pc |-> "idle", stimulus |-> NoneValue, shadows |-> EmptyMap,
         inductive |-> NoPrediction, logic_state |-> NoneValue,
         confidence |-> 0, thought |-> NoneValue]

\* SF_ORB_Controller.__init__
ConstructedOver(engines) ==
    /\ sequence_buffer = <<>>
    /\ pattern_cache = EmptyMap
    /\ posteriori_cache = EmptyMap
    /\ crystals = EmptyMap
    /\ bayes = initialize_bayesian_priors
    /\ proprioception = [position |-> <<960, 540>>, velocity |-> <<0, 0>>]
    /\ \E engine \in engines :
         /\ field_map = engine.field_map
         /\ purge_trigger_threshold = engine.purge
         /\ max_field_density = engine.max
    /\ last_density_breach = 0
    /\ clock = 0
    /\ shadow_calls = EmptyMap
    /\ last = NoCall
    /\ predicted = EmptyMap
    /\ observed = 0
    /\ arrivals = <<>>
    /\ threads = [t \in Threads |-> Idle]

Constructed == ConstructedOver(Engines)

Init ==
    /\ Constructed
    /\ direct = NoneValue
    /\ bridge = NoneValue

(***************************************************************************)
(* cognitively_emerge                                                      *)
(***************************************************************************)
\* orb_pos defaulting to the coordinates of the cursor
AfterPhysics_cursor_default(stimulus) ==
    update_physics( proprioception.position,
                    IF stimulus.orb_coordinates = <<>> THEN stimulus.coordinates
                    ELSE stimulus.orb_coordinates,
                    1 )

\* lines 364-365: orb_pos defaults to the stored position; dt is 0.1 s
AfterPhysics(stimulus) ==
    update_physics( proprioception.position,
                    IF stimulus.orb_coordinates = <<>> THEN proprioception.position
                    ELSE stimulus.orb_coordinates,
                    1 )

\* lines 384-388: no prediction is asked for when the jump triggered
Inductive(intuition, buffer, posteriori) ==
    IF intuition.jump_triggered THEN NoPrediction ELSE predict_next(buffer, posteriori)

\* the record of the confidences predict_next returned, by pattern looked up
NotePrediction(seen, buffer, prediction) ==
    IF prediction = NoPrediction THEN seen
    ELSE Upsert(seen, LookupPatternKey(buffer), prediction.confidence)

\* the engine seen without the breach density it recorded
EngineView_live_only ==
    [ live |-> FieldCount(field_map), breach |-> 0,
      purge |-> purge_trigger_threshold, max |-> max_field_density ]

\* what the engine shows to _synthesize_logic_triad
EngineView ==
    [ live |-> FieldCount(field_map), breach |-> last_density_breach,
      purge |-> purge_trigger_threshold, max |-> max_field_density ]

\* the three posteriors read at lines 649-651
Posteriors(b) ==
    [ habit |-> calculate_posterior(b, "habit_continues"),
      jump |-> calculate_posterior(b, "jump_necessary"),
      guard |-> calculate_posterior(b, "guard_sufficient") ]

\* lines 417-439: the thought, with the envelope's verdict attached
Thought(shadows, logic_state, confidence) ==
    LET ucm_envelope == build_correlation_envelope(shadows, logic_state, confidence)
    IN  [ kind |-> "thought",
          epistemic_traces |-> shadows,
          logic_validity |-> logic_state,
          confidence |-> confidence,
          ucm_envelope |-> ucm_envelope,
          final_verdict |-> ucm_envelope.final_verdict,
          final_verdict_source |-> ucm_envelope.final_verdict_source ]

\* the record written with the mode the synthesis starts from
Crystal_initial_mode(thought) ==
    [ kind |-> "crystal",
      predicate |-> [ glow_intensity |-> thought.confidence,
                      cognitive_mode |-> thought.logic_validity.active_mode,
                      final_verdict |-> thought.final_verdict ],
      confidence |-> thought.confidence,
      triad_c_mode |-> "GUARD",
      field_density |-> thought.logic_validity.field_density ]

\* lines 443-453: the record crystallized under the stimulus
Crystal(thought) ==
    [ kind |-> "crystal",
      predicate |-> [ glow_intensity |-> thought.confidence,
                      cognitive_mode |-> thought.logic_validity.active_mode,
                      final_verdict |-> thought.final_verdict ],
      confidence |-> thought.confidence,
      triad_c_mode |-> thought.logic_validity.active_mode,
      field_density |-> thought.logic_validity.field_density ]

\* the store that keeps nothing
Crystallized_nowhere(store, stimulus, thought) == store

\* lines 443-453: self.vaults.crystallize(stimulus, {...})
Crystallized(store, stimulus, thought) == Upsert(store, stimulus, Crystal(thought))

\* line 396: one more call of tribunal.generate_epistemic_shadow(stimulus)
ShadowGenerated(calls, stimulus) ==
    Upsert(calls, stimulus, IF stimulus \in DOMAIN calls THEN calls[stimulus] + 1 ELSE 1)

\* a call that ended without reaching line 441: its stimulus, what it
\* returned, and no update_with_outcome call made
Called(kind, stimulus, value) ==
    [kind |-> kind, stimulus |-> stimulus, value |-> value, outcomes |-> <<>>]

\* a call that returned a thought, and the update_with_outcome calls line 441 made
Returned(stimulus, thought) ==
    [ kind |-> "thought", stimulus |-> stimulus, value |-> thought,
      outcomes |-> OutcomeCalls(thought.logic_validity) ]

\* lines 353-354: the sovereignty check fails and None is returned
Rejected(stimulus) ==
    /\ ~check_sovereignty(stimulus)
    /\ last' = Called("rejected", stimulus, NoneValue)
    /\ UNCHANGED << tracker_vars, crystals, bayes, proprioception, shadow_calls, predicted,
                    observed, arrivals >>

\* lines 356-388, which every cycle that passes the sovereignty check runs:
\* the observation is recorded, the navigator updated, the prediction asked
Perceive(stimulus) ==
    LET rec == RecordObservationResult(sequence_buffer, pattern_cache, posteriori_cache,
                                       stimulus)
        inductive == Inductive(check_necessity(field_map), rec.buffer, rec.posteriori)
    IN  /\ sequence_buffer' = rec.buffer
        /\ pattern_cache' = rec.cache
        /\ posteriori_cache' = rec.posteriori
        /\ proprioception' = AfterPhysics(stimulus)
        /\ predicted' = NotePrediction(predicted, rec.buffer, inductive)
        /\ observed' = IF stimulus.type = "cursor_movement" THEN observed + 1 ELSE observed
        /\ arrivals' = Arrived(arrivals, stimulus)

\* a bypass taken before the observation is recorded
Bypassed_unobserved(stimulus) ==
    /\ check_sovereignty(stimulus)
    /\ lightning_query(crystals, stimulus) # NoneValue
    /\ last' = Called("bypass", stimulus, lightning_query(crystals, stimulus))
    /\ UNCHANGED << tracker_vars, proprioception, predicted, observed, arrivals, crystals,
                    bayes, shadow_calls >>

\* a bypass that returns the stored result after the shadows were generated
Bypassed_after_shadows(stimulus) ==
    /\ check_sovereignty(stimulus)
    /\ lightning_query(crystals, stimulus) # NoneValue
    /\ Perceive(stimulus)
    /\ last' = Called("bypass", stimulus, lightning_query(crystals, stimulus))
    /\ shadow_calls' = ShadowGenerated(shadow_calls, stimulus)
    /\ bayes' = update_bayesian_shadows(bayes, clock + 1, FullShadows)
    /\ UNCHANGED crystals

\* lines 390-394: the store holds a result for the stimulus, which is returned
Bypassed(stimulus) ==
    /\ check_sovereignty(stimulus)
    /\ lightning_query(crystals, stimulus) # NoneValue
    /\ Perceive(stimulus)
    /\ last' = Called("bypass", stimulus, lightning_query(crystals, stimulus))
    /\ UNCHANGED << crystals, bayes, shadow_calls >>

\* lines 396-461: the full synthesis
FullCycle(stimulus, shadows, magnitude) ==
    /\ check_sovereignty(stimulus)
    /\ lightning_query(crystals, stimulus) = NoneValue
    /\ Perceive(stimulus)
    /\ LET rec == RecordObservationResult(sequence_buffer, pattern_cache, posteriori_cache,
                                          stimulus)
           intuition == check_necessity(field_map)
           inductive == Inductive(intuition, rec.buffer, rec.posteriori)
           shadowed == update_bayesian_shadows(bayes, clock + 1, shadows)
           logic_state == synthesize_logic_triad(inductive, intuition,
                                                 bayes_view(shadowed, shadows),
                                                 EngineView, Posteriors(shadowed))
           confidence == calculate_convergence(Cardinality(DOMAIN shadows), logic_state,
                                               magnitude)
           thought == Thought(shadows, logic_state, confidence)
       IN  /\ shadow_calls' = ShadowGenerated(shadow_calls, stimulus)
           /\ bayes' = update_bayesian_outcome(shadowed, logic_state)
           /\ crystals' = Crystallized(crystals, stimulus, thought)
           /\ last' = Returned(stimulus, thought)

\* lines 401-406: the thought vector is all zeros when the node has no
\* neighbours, which is the case in an empty field map
thought_magnitude(field, response) ==
    IF FieldCount(field) = 0 THEN 0 ELSE response.magnitude

\* cognitively_emerge(stimulus): one call
CognitivelyEmergeWithin(stimulus, limit) ==
    /\ clock < limit
    /\ clock' = clock + 1
    /\ UNCHANGED engine_vars
    /\ \/ Rejected(stimulus)
       \/ Bypassed(stimulus)
       \/ \E response \in Responses :
            FullCycle(stimulus, response.shadows, thought_magnitude(field_map, response))

\* cognitively_emerge(stimulus)
CognitivelyEmerge(stimulus) == CognitivelyEmergeWithin(stimulus, MaxCalls)

\* the engine's _edge_cutter_purge: it runs at the purge trigger threshold,
\* records the density it found and empties the field map
EdgeCutterPurge ==
    /\ FieldCount(field_map) >= purge_trigger_threshold
    /\ last_density_breach' = FieldCount(field_map)
    /\ field_map' = EmptyField
    /\ UNCHANGED << tracker_vars, crystals, bayes, proprioception, purge_trigger_threshold,
                    max_field_density, clock, shadow_calls, last, predicted, observed, arrivals,
                    other_vars >>

\* the stimuli submitted to the controller
ControllerStimuli == CursorStimuli \cup {TextStimulus} \cup ProbeStimuli

Next ==
    \/ \E stimulus \in ControllerStimuli :
         CognitivelyEmerge(stimulus) /\ UNCHANGED other_vars
    \/ EdgeCutterPurge

Spec == Init /\ [][Next]_vars

\* a step that is a call of cognitively_emerge: every call advances the clock
\* and is recorded, with its stimulus and what it returned, in last
IsCall == clock' # clock

\* C2: a call on a surveillance_probe whose meta.test_mode is not True returns
\* None and leaves the ring buffer, the pattern occurrence cache, the
\* posteriori cache, the beliefs, the navigator and the store unchanged; with
\* test_mode True the probe is processed like any other stimulus: the cached
\* result is returned when the store holds one, a full cycle runs otherwise.
C2_SovereigntyFrame ==
    [][ (IsCall /\ last'.stimulus.type = "surveillance_probe") =>
          IF last'.stimulus.test_mode = "True"
          THEN IF last'.stimulus \in DOMAIN crystals
               THEN last'.kind = "bypass"
               ELSE /\ last'.kind = "thought"
                    /\ last'.stimulus \in DOMAIN crystals'
                    /\ shadow_calls'[last'.stimulus] = 1
          ELSE /\ last'.kind = "rejected"
               /\ last'.value = NoneValue
               /\ UNCHANGED << tracker_vars, bayes, proprioception, crystals,
                               shadow_calls >> ]_vars

\* a probe whose test_mode is set, but not to True, was rejected by a
\* controller that holds observations and crystals
C2_Witness ==
    /\ last.kind = "rejected"
    /\ last.stimulus.test_mode = "truthy"
    /\ Len(sequence_buffer) > 0
    /\ DOMAIN crystals # {}

\* C3: a call on a stimulus the store holds a result for returns exactly that
\* result; no shadow is generated, and the belief updater's priors and
\* evidence and the store are the same after the call as before.
C3_BypassFrame ==
    [][ (IsCall /\ check_sovereignty(last'.stimulus)
               /\ last'.stimulus \in DOMAIN crystals) =>
          /\ last'.kind = "bypass"
          /\ last'.value = crystals[last'.stimulus]
          /\ last'.value.kind = "crystal"
          /\ UNCHANGED << bayes, shadow_calls, crystals >> ]_vars

\* a cached result was returned by a controller whose beliefs had moved
C3_Witness ==
    /\ last.kind = "bypass"
    /\ last.stimulus.type = "cursor_movement"
    /\ bayes # initialize_bayesian_priors

\* C4: shadows are generated at most once for a stimulus, and only for a
\* stimulus whose result is then crystallized; a call that returns a cached
\* result returns what was crystallized under its stimulus.
C4_AtMostOneSynthesis ==
    /\ DOMAIN shadow_calls = DOMAIN crystals
    /\ \A stimulus \in DOMAIN shadow_calls : shadow_calls[stimulus] = 1
    /\ last.kind = "bypass" => last.value = crystals[last.stimulus]

\* an identical stimulus was submitted after its full cycle, and another
\* stimulus went through its own full cycle
C4_Witness ==
    /\ last.kind = "bypass"
    /\ clock = 3
    /\ Cardinality(DOMAIN crystals) = 2

\* the fixed table of mode and verdict
TableVerdict(mode, verdict) ==
    \/ mode = "INTUITION-JUMP" /\ verdict = "escalate"
    \/ mode = "HABIT" /\ verdict = "act"
    \/ mode = "GUARD-HABIT" /\ verdict = "monitor"
    \/ mode \notin {"INTUITION-JUMP", "HABIT", "GUARD-HABIT"} /\ verdict = "no_act"

\* C11: in the envelope of every thought the final verdict is the fixed table
\* applied to the resolved mode, the advisory verdict of every perspective
\* equals the final verdict, and the source of the final verdict is the
\* deliberation path, whatever the shadows hold.
C11_EnvelopeVerdict ==
    last.kind = "thought" =>
        LET envelope == last.value.ucm_envelope
        IN  /\ TableVerdict(last.value.logic_validity.active_mode, envelope.final_verdict)
            /\ \A perspective \in DOMAIN envelope.core_4 :
                 envelope.core_4[perspective].advisory_verdict = envelope.final_verdict
            /\ envelope.final_verdict_source = "UCM Core-4 deliberation (ECM advisory only)"
            /\ last.value.final_verdict = envelope.final_verdict

\* a thought in mode GUARD-HABIT built from shadows of two perspectives only
C11_Witness ==
    /\ last.kind = "thought"
    /\ last.value.logic_validity.active_mode = "GUARD-HABIT"
    /\ last.value.ucm_envelope.final_verdict = "monitor"
    /\ last.value.epistemic_traces = TwoShadows

\* C16: a full cycle feeds exactly one outcome to each of habit_continues,
\* jump_necessary and guard_sufficient: habit succeeded iff the mode is HABIT
\* or GUARD-HABIT and the confidence of the prediction exceeds 0.4, jump iff
\* the mode is INTUITION-JUMP and the necessity detector triggered, guard iff
\* the mode is GUARD and neither of the two succeeded; a rejected and a
\* bypassed cycle feed none.
C16_OneOutcomePerHypothesis ==
    /\ last.kind \in {"rejected", "bypass"} => last.outcomes = <<>>
    /\ last.kind = "thought" =>
          LET mode == last.value.logic_validity.active_mode
              triggered == last.value.logic_validity.intuitive_jump_triggered
              confidence == IF triggered THEN 0
                            ELSE predict_next(sequence_buffer, posteriori_cache).confidence
              habit == mode \in {"HABIT", "GUARD-HABIT"} /\ confidence > 400
              jump == mode = "INTUITION-JUMP" /\ triggered
              guard == mode = "GUARD" /\ ~habit /\ ~jump
              Fed(h) == {i \in 1..Len(last.outcomes) : last.outcomes[i].hypothesis = h}
              Succeeded(h) == \E i \in Fed(h) : last.outcomes[i].success
          IN  /\ Len(last.outcomes) = 3
              /\ \A h \in {"habit_continues", "jump_necessary", "guard_sufficient"} :
                    Cardinality(Fed(h)) = 1
              /\ Succeeded("habit_continues") <=> habit
              /\ Succeeded("jump_necessary") <=> jump
              /\ Succeeded("guard_sufficient") <=> guard

\* a full cycle ran on a triggered necessity jump and fed three outcomes:
\* a failure to habit_continues, a success to jump_necessary, a failure to
\* guard_sufficient
C16_Witness ==
    /\ last.kind = "thought"
    /\ last.value.logic_validity.intuitive_jump_triggered
    /\ last.outcomes = << [hypothesis |-> "habit_continues", success |-> FALSE, weight |-> 70],
                          [hypothesis |-> "jump_necessary", success |-> TRUE, weight |-> 60],
                          [hypothesis |-> "guard_sufficient", success |-> FALSE, weight |-> 50] >>

\* C20: when the necessity detector reports jump_triggered, a full cycle
\* resolves INTUITION-JUMP with the detector's necessity vector, certainty and
\* symmetry score recorded; no inductive prediction is computed in the cycle,
\* and no density rule and no posterior rule touches the state: no penalty is
\* set, no posterior is attached, the mode stays INTUITION-JUMP.
C20_JumpIsSticky ==
    [][ (IsCall /\ check_sovereignty(last'.stimulus)
                /\ check_necessity(field_map).jump_triggered) =>
            /\ predicted' = predicted
            /\ last'.kind = "thought" =>
                  /\ last'.value.logic_validity.active_mode = "INTUITION-JUMP"
                  /\ last'.value.logic_validity.intuitive_jump_triggered
                  /\ last'.value.logic_validity.necessity_vector =
                         calculate_substance_vector(field_map)
                  /\ last'.value.logic_validity.spinozan_certainty = 98
                  /\ last'.value.logic_validity.substance_unity_score =
                         calculate_bilateral_symmetry(field_map)
                  /\ last'.value.logic_validity.inductive_prediction = NoPrediction
                  /\ last'.value.logic_validity.density_penalty = 0
                  /\ ~last'.value.logic_validity.bayes_attached ]_vars

\* a full cycle ran on a field whose density is above the purge trigger
\* threshold and whose symmetry triggered the jump, after 3 cursor
\* observations for which a habit record is persisted
C20_Witness ==
    /\ last.kind = "thought"
    /\ check_necessity(field_map).jump_triggered
    /\ FieldCount(field_map) >= purge_trigger_threshold
    /\ observed = 3
    /\ predict_next(sequence_buffer, posteriori_cache).prediction_type = "QUADRANT_TRANSITION"
    /\ last.value.logic_validity.active_mode = "INTUITION-JUMP"
    /\ last.value.logic_validity.inductive_prediction = NoPrediction

\* the first call on a fresh controller over an empty spatial index,
\* submitting the test stimulus
FirstTestCycle ==
    /\ clock = 1
    /\ last.stimulus = TestStimulus
    /\ FieldCount(field_map) = 0
    /\ last_density_breach = 0

\* C7 (as amended): the first stimulus {cursor_movement, [100,200], 5.0} on a
\* fresh controller over an empty spatial index resolves mode HABIT, the
\* seeded habit_continues posterior 0.6 exceeding 0.55, with a confidence in
\* [0.85, 0.87].
C7_FirstStimulusHabit ==
    FirstTestCycle =>
        /\ last.kind = "thought"
        /\ last.value.logic_validity.active_mode = "HABIT"
        /\ last.value.confidence \in 8500..8700

C7_Witness ==
    /\ FirstTestCycle
    /\ last.value.logic_validity.active_mode = "HABIT"
    /\ ~last.value.logic_validity.custom_habit_active
    /\ last.value.confidence = 8700

\* C7 as stated: the mode is GUARD or GUARD-HABIT
C7_Original ==
    FirstTestCycle =>
        /\ last.kind = "thought"
        /\ last.value.logic_validity.active_mode \in {"GUARD", "GUARD-HABIT"}
        /\ last.value.confidence \in 8500..8700

\* C38: the density mode synthesis compares against both thresholds and
\* reports as field_density is max(live node count, last recorded breach
\* density): while the recorded breach density is at or above the purge
\* trigger threshold the resolved mode is never GUARD, even after the live
\* node count has fallen below the threshold.
C38_BreachDensityCounts ==
    [][ (IsCall /\ last'.kind = "thought") =>
          LET logic_state == last'.value.logic_validity
              density == Max(FieldCount(field_map), last_density_breach)
          IN  /\ logic_state.field_density = density
              /\ last_density_breach >= purge_trigger_threshold =>
                    logic_state.active_mode # "GUARD"
              /\ density * 100 >= max_field_density * 95 =>
                    logic_state.active_mode = "INTUITION-JUMP" ]_vars

\* a cycle over a field map the purge has emptied: the breach density of 2
\* is reported, and the mode is GUARD-HABIT with the penalty of the purge rule
C38_Witness ==
    /\ last.kind = "thought"
    /\ FieldCount(field_map) = 0
    /\ last_density_breach = 2
    /\ purge_trigger_threshold = 2
    /\ last.value.logic_validity.field_density = 2
    /\ last.value.logic_validity.inductive_prediction = NoPrediction
    /\ last.value.logic_validity.active_mode = "GUARD-HABIT"
    /\ last.value.logic_validity.density_penalty = 10

\* what the beliefs hold about the three hypotheses mode synthesis reads
ModeBeliefs(b) == [h \in Hypotheses |-> <<b.priors[h], b.evidence[h]>>]

\* C33: the resolved mode does not depend on the shadows: from the same
\* tracker, spatial index, store and beliefs, a full cycle resolves the same
\* mode whatever shadows the tribunal returns, and it leaves the same
\* beliefs about the three hypotheses mode synthesis reads and the same
\* stimuli in the store, so that the cycles after it resolve the same modes.
C33_ModeIgnoresShadows ==
    [][ (IsCall /\ last'.kind = "thought") =>
          /\ DOMAIN crystals' = DOMAIN crystals \cup {last'.stimulus}
          /\ \A response \in Responses :
                LET intuition == check_necessity(field_map)
                    shadowed == update_bayesian_shadows(bayes, clock + 1, response.shadows)
                    logic_state ==
                        synthesize_logic_triad(
                            Inductive(intuition, sequence_buffer', posteriori_cache'),
                            intuition, bayes_view(shadowed, response.shadows), EngineView,
                            Posteriors(shadowed))
                IN  /\ logic_state.active_mode = last'.value.logic_validity.active_mode
                    /\ ModeBeliefs(update_bayesian_outcome(shadowed, logic_state))
                           = ModeBeliefs(bayes') ]_vars

\* a third full cycle, over two shadows, after cycles whose shadows left
\* evidence for all four perspectives
C33_Witness ==
    /\ last.kind = "thought"
    /\ clock = 3
    /\ last.value.epistemic_traces = TwoShadows
    /\ PersistenceHypothesis("locke") \in DOMAIN bayes.evidence
    /\ Cardinality(bayes.evidence[PersistenceHypothesis("hume")]) = 3
    /\ Cardinality(bayes.evidence[PersistenceHypothesis("locke")]) = 2

(***************************************************************************)
(* A longer session of the controller: cursor movements, one of them with  *)
(* the position of the orb, and text queries, over the same engines.       *)
(***************************************************************************)
\* a cursor movement that carries the position of the orb
OrbStimulus == [TestStimulus EXCEPT !.orb_coordinates = <<100, 100>>]

SessionStimuli == CursorStimuli \cup {TextStimulus, OrbStimulus}

NextSession ==
    \E stimulus \in SessionStimuli :
        CognitivelyEmergeWithin(stimulus, MaxSession) /\ UNCHANGED other_vars

SpecSession == Init /\ [][NextSession]_vars

\* C36: a cursor stimulus that hits the lightning bypass still mutates
\* pattern memory, exactly like a full cycle: its observation is appended to
\* the ring buffer and, three observations being buffered, the occurrence
\* count of its pattern is incremented, the habit record is persisted again
\* with the frequency of the new count, and the heat of its quadrant rises;
\* the cached result is returned and the store of results is left alone.
C36_BypassRecordsObservation ==
    [][ (IsCall /\ last'.kind = "bypass" /\ last'.stimulus.type = "cursor_movement") =>
          LET quadrant == coords_to_quadrant(last'.stimulus.coordinates)
              buffer == DequeAppend(sequence_buffer, quadrant)
              key == serialize_pattern(buffer)
              count == IF key \in DOMAIN pattern_cache THEN pattern_cache[key] ELSE 0
          IN  /\ sequence_buffer' = buffer
              /\ Len(buffer) >= 3 =>
                    /\ pattern_cache'[key] = count + 1
                    /\ posteriori_cache'[HabitKey(key)].pattern = key
                    /\ posteriori_cache'[HabitKey(key)].frequency = Frequency(count + 1)
                    /\ get_quadrant_heat(pattern_cache', quadrant)
                          > get_quadrant_heat(pattern_cache, quadrant)
              /\ Len(buffer) < 3 => UNCHANGED << pattern_cache, posteriori_cache >>
              /\ last'.value = crystals[last'.stimulus]
              /\ UNCHANGED crystals ]_vars

\* the fourth call, a bypass like the two before it: four observations are
\* buffered, and the patterns of three and of four labels are counted
C36_Witness ==
    /\ last.kind = "bypass"
    /\ last.stimulus = TestStimulus
    /\ clock = 4
    /\ sequence_buffer = <<"NW", "NW", "NW", "NW">>
    /\ Cardinality(DOMAIN pattern_cache) = 2
    /\ Cardinality(DOMAIN crystals) = 1

\* C39: as long as no stimulus carries orb_coordinates, the stored position
\* of the navigator stays at its initial value [960, 540] and its velocity
\* at [0, 0], whatever cycles are run, so that the quadrant the habit heat
\* is looked up for stays the same.
C39_NavigatorAtRest ==
    [][ ( /\ proprioception = [position |-> <<960, 540>>, velocity |-> <<0, 0>>]
          /\ IsCall
          /\ last'.stimulus.orb_coordinates = <<>> ) =>
          /\ proprioception'.position = <<960, 540>>
          /\ proprioception'.velocity = <<0, 0>>
          /\ coords_to_quadrant(proprioception'.position)
                = coords_to_quadrant(proprioception.position) ]_vars

\* four cycles on cursor movements at two places and a text query, none of
\* them with orb_coordinates: the navigator is where it started
C39_Witness ==
    /\ clock = 4
    /\ observed = 3
    /\ Cardinality(DOMAIN crystals) = 3
    /\ \A stimulus \in DOMAIN crystals : stimulus.orb_coordinates = <<>>
    /\ last.kind = "thought"
    /\ proprioception = [position |-> <<960, 540>>, velocity |-> <<0, 0>>]

\* C34: once three cursor observations have been recorded, no later full
\* cycle resolves mode GUARD, whatever the type of its stimulus: its final
\* verdict is not no_act and guard_sufficient receives no success outcome.
C34_NoGuardAfterThree ==
    [][ (IsCall /\ observed >= 3 /\ last'.kind = "thought") =>
          /\ last'.value.logic_validity.active_mode # "GUARD"
          /\ last'.value.final_verdict # "no_act"
          /\ \A i \in 1..Len(last'.outcomes) :
                last'.outcomes[i].hypothesis = "guard_sufficient" =>
                    ~last'.outcomes[i].success ]_vars

\* a text query run as a full cycle after three cursor observations, with a
\* prediction made from the retained buffer and no necessity jump
C34_Witness ==
    /\ last.kind = "thought"
    /\ last.stimulus = TextStimulus
    /\ observed = 3
    /\ clock = 4
    /\ ~last.value.logic_validity.intuitive_jump_triggered
    /\ last.value.logic_validity.inductive_prediction # NoPrediction
    /\ last.value.logic_validity.active_mode = "GUARD-HABIT"

(***************************************************************************)
(* The HabitTracker driven directly: record_observation and predict_next   *)
(* called on a tracker over a fresh store.                                 *)
(***************************************************************************)
HabitStimuli == CursorStimuli \cup QueryStimuli \cup ProbeStimuli

\* HabitTracker.record_observation(stimulus), fewer than limit cursor
\* observations having been recorded
RecordObservationWithin(stimulus, limit) ==
    /\ observed < limit
    /\ LET rec == RecordObservationResult(sequence_buffer, pattern_cache, posteriori_cache,
                                          stimulus)
       IN  /\ sequence_buffer' = rec.buffer
           /\ pattern_cache' = rec.cache
           /\ posteriori_cache' = rec.posteriori
    /\ observed' = IF stimulus.type = "cursor_movement" THEN observed + 1 ELSE observed
    /\ arrivals' = Arrived(arrivals, stimulus)
    /\ last' = Called("record_observation", stimulus, record_observation(stimulus, clock))
    /\ UNCHANGED << crystals, bayes, proprioception, engine_vars, clock, shadow_calls,
                    predicted, other_vars >>

\* HabitTracker.record_observation(stimulus)
RecordObservation(stimulus) == RecordObservationWithin(stimulus, MaxObs)

\* HabitTracker.predict_next()
PredictNext ==
    /\ LET prediction == predict_next(sequence_buffer, posteriori_cache)
       IN  /\ last' = Called("predict_next", NoneValue, prediction)
           /\ predicted' = NotePrediction(predicted, sequence_buffer, prediction)
    /\ UNCHANGED << tracker_vars, crystals, bayes, proprioception, engine_vars, clock,
                    shadow_calls, observed, arrivals, other_vars >>

NextHabit ==
    \/ \E stimulus \in HabitStimuli : RecordObservation(stimulus)
    \/ PredictNext

\* the tracker of a controller constructed over an empty field map
InitHabit == Init /\ field_map = EmptyField

SpecHabit == InitHabit /\ [][NextHabit]_vars

\* five cursor observations were recorded on the fresh tracker, all of them in
\* the same quadrant, and predict_next was called
FiveInOneQuadrant ==
    /\ observed = 5
    /\ Len(sequence_buffer) = 5
    /\ \A i \in 1..5 : sequence_buffer[i] = sequence_buffer[1]
    /\ last.kind = "predict_next"

\* every crystallize call of the tracker is reflected in the posteriori cache
PosterioriReflectsCache ==
    /\ DOMAIN posteriori_cache = {HabitKey(k) : k \in DOMAIN pattern_cache}
    /\ \A k \in DOMAIN pattern_cache : posteriori_cache[HabitKey(k)] = HabitRecord(pattern_cache, k)

C14_RingBufferMostRecent ==
    LET n == Len(arrivals)
        kept == IF n <= 5 THEN n ELSE 5
    IN  /\ Len(sequence_buffer) = kept
        /\ \A i \in 1..kept : sequence_buffer[i] = arrivals[n - kept + i]

\* a sixth observation arrived and evicted the first, which differed from
\* the entry that is now the oldest
C14_Witness ==
    /\ last.kind = "record_observation"
    /\ Len(arrivals) = 6
    /\ Len(sequence_buffer) = 5
    /\ arrivals[1] # arrivals[2]
    /\ sequence_buffer[1] = arrivals[2]

\* the confidence without the +0.14 and the +0.08: the base, the shadow
\* bonus and the magnitude bonus (ten-thousandths)
Unrewarded == 8500 + (IF direct.n_shadows >= 3 THEN 200 ELSE 0) + Min(direct.magnitude, 200)

UpdatePhysics(current_pos, dt) ==
    /\ clock < MaxMoves
    /\ clock' = clock + 1
    /\ proprioception' = update_physics(proprioception.position, current_pos, dt)
    /\ direct' = [ op |-> "update_physics", from |-> proprioception.position,
                   current_pos |-> current_pos, dt |-> dt ]
    /\ UNCHANGED << tracker_vars, crystals, bayes, engine_vars, shadow_calls, last,
                    predicted, observed, arrivals, threads, bridge >>

NextPhysics ==
    \E x \in {900, 960, 1000}, y \in {500, 540, 600}, dt \in {-1, 0, 1, 5} :
        UpdatePhysics(<<x, y>>, dt)

SpecPhysics == InitHabit /\ [][NextPhysics]_vars

\* C31: update_physics called with dt <= 0 treats dt as a small positive
\* epsilon: the new position is stored, and the stored velocity is the
\* position delta divided by epsilon, which is not zero, and has the sign of
\* the delta, wherever the position moved.
C31_EpsilonVelocity ==
    (direct # NoneValue /\ direct.dt <= 0) =>
        /\ proprioception.position = direct.current_pos
        /\ \A i \in 1..2 :
              /\ direct.current_pos[i] > direct.from[i] => proprioception.velocity[i] > 0
              /\ direct.current_pos[i] < direct.from[i] => proprioception.velocity[i] < 0
              /\ direct.current_pos[i] = direct.from[i] => proprioception.velocity[i] = 0

(***************************************************************************)
(* check_necessity called directly on a recognizer over field maps around  *)
(* the two thresholds.                                                     *)
(***************************************************************************)
NecessityFields ==
    { FieldOf(o, r, l, f) : o \in {0, 48, 50, 51, 60}, r \in {0, 1, 30}, l \in {0, 1, 30},
                            f \in {0, 2, 5} }

InitNecessity ==
    /\ ConstructedOver({[field_map |-> f, purge |-> 55, max |-> 100] : f \in NecessityFields})
    /\ direct = NoneValue
    /\ bridge = NoneValue

\* IntuitiveRecognizer.check_necessity(stimulus, current_node)
CheckNecessity ==
    /\ direct = NoneValue
    /\ direct' = [op |-> "checked", intuitive |-> check_necessity(field_map)]
    /\ UNCHANGED << tracker_vars, crystals, bayes, proprioception, engine_vars, clock,
                    shadow_calls, last, predicted, observed, arrivals, threads, bridge >>

SpecNecessity == InitNecessity /\ [][CheckNecessity]_vars

\* C28: check_necessity reports jump_triggered true only if the live node
\* count is strictly above 50 and the bilateral symmetry strictly above 0.9,
\* and then with certainty 0.98; otherwise it reports false with certainty
\* 0.0; in both cases it reports the measured density and symmetry.
C28_NecessityThresholds ==
    direct # NoneValue =>
        LET result == direct.intuitive
            symmetry == calculate_bilateral_symmetry(field_map)
        IN  /\ result.jump_triggered =>
                   /\ FieldCount(field_map) > 50
                   /\ 10 * symmetry.num > 9 * symmetry.den
                   /\ result.spinozan_certainty = 98
            /\ ~result.jump_triggered => result.spinozan_certainty = 0
            /\ result.field_density = FieldCount(field_map)
            /\ result.substance_unity_score = symmetry

\* 62 nodes, 1770 of the 1891 pairs mirror: the jump is triggered
C28_Witness ==
    /\ direct # NoneValue
    /\ field_map = FieldOf(60, 0, 0, 2)
    /\ direct.intuitive.jump_triggered
    /\ direct.intuitive.spinozan_certainty = 98
    /\ direct.intuitive.field_density = 62

(***************************************************************************)
(* The tracker followed over a long run of observations: the first         *)
(* MaxMixed cursor observations fall in any quadrant, the later ones       *)
(* repeat the first cursor position.                                       *)
(***************************************************************************)
HeatStimuli == CursorStimuli \cup {TextStimulus}

RecordHeat(stimulus) ==
    /\ observed >= MaxMixed => stimulus \in {TestStimulus, TextStimulus}
    /\ RecordObservationWithin(stimulus, MaxHeat)

NextHeat == \E stimulus \in HeatStimuli : RecordHeat(stimulus)

SpecHeat == InitHabit /\ [][NextHeat]_vars

\* the sum of the counts of the cached patterns that contain the label
CountsContaining(cache, quadrant_code) ==
    SumCounts(cache, {k \in DOMAIN cache :
                         \E i \in 1..Len(SplitPattern(k)) : SplitPattern(k)[i] = quadrant_code})

\* C27: for every quadrant label get_quadrant_heat lies within [0, 1], never
\* decreases when an observation is recorded, and equals min(1, S / 100)
\* where S is the sum of the counts of the cached patterns containing the label.
C27_QuadrantHeat ==
    [][ \A q \in Quadrants :
            /\ get_quadrant_heat(pattern_cache', q) \in 0..1000
            /\ get_quadrant_heat(pattern_cache', q) >= get_quadrant_heat(pattern_cache, q)
            /\ get_quadrant_heat(pattern_cache', q)
                   = Min(1000, 10 * CountsContaining(pattern_cache', q)) ]_vars

\* the heat of NW is capped at 1 by more than 100 counted patterns, while SW,
\* seen in the first observations only, keeps a heat strictly between 0 and 1
C27_Witness ==
    /\ last.kind = "record_observation"
    /\ CountsContaining(pattern_cache, "NW") > 100
    /\ get_quadrant_heat(pattern_cache, "NW") = 1000
    /\ get_quadrant_heat(pattern_cache, "SW") \in 1..999
    /\ get_quadrant_heat(pattern_cache, "NE") = 0

\* C26: record_observation on a stimulus that is not a cursor movement
\* (text_query, speech_query, surveillance_probe) leaves the ring buffer, the
\* pattern cache and the store unchanged and returns None.
C26_NonCursorIgnored ==
    [][ (last'.kind = "record_observation" /\ last'.stimulus.type # "cursor_movement") =>
            /\ UNCHANGED << tracker_vars, crystals >>
            /\ last'.value = NoneValue ]_vars

\* a surveillance probe recorded on a tracker that holds counted patterns
C26_Witness ==
    /\ last.kind = "record_observation"
    /\ last.stimulus.type = "surveillance_probe"
    /\ last.value = NoneValue
    /\ Len(sequence_buffer) = 4
    /\ DOMAIN pattern_cache # {}

\* C25: every pattern key counted by record_observation, and every key a
\* habit record is persisted under, consists of exactly 3 quadrant labels,
\* and the key of the last 3 observations, which predict_next looks up, is
\* counted as soon as 3 observations are buffered.
C25_ThreeLabelKeys ==
    /\ \A k \in DOMAIN pattern_cache : Len(SplitPattern(k)) = 3
    /\ \A k \in DOMAIN pattern_cache : HabitKey(k) \in DOMAIN posteriori_cache
    /\ Len(sequence_buffer) >= 3 => LookupPatternKey(sequence_buffer) \in DOMAIN pattern_cache

\* C13: predict_next returns None exactly when fewer than 3 cursor
\* observations have been recorded; from the third observation on it returns
\* a QUADRANT_TRANSITION prediction carrying the persisted frequency when the
\* posteriori cache holds a record under the key of the last 3 quadrants, and
\* the UNSURE default (confidence 0.3, vivacity 0.4) when it holds none.
C13_PredictNextCases ==
    last.kind = "predict_next" =>
        LET key == HabitKey(<<sequence_buffer[Len(sequence_buffer) - 2], "_",
                              sequence_buffer[Len(sequence_buffer) - 1], "_",
                              sequence_buffer[Len(sequence_buffer)]>>)
        IN  /\ last.value = NoPrediction <=> observed < 3
            /\ observed >= 3 =>
                  IF key \in DOMAIN posteriori_cache
                  THEN /\ last.value.prediction_type = "QUADRANT_TRANSITION"
                       /\ last.value.confidence = posteriori_cache[key].frequency
                       /\ last.value.target = posteriori_cache[key].predicted_next
                  ELSE /\ last.value.prediction_type = "UNSURE"
                       /\ last.value.confidence = 300
                       /\ last.value.hume_vivacity = 400

\* predict_next answered UNSURE after a fourth observation, None having been
\* ruled out and no record being persisted for the last 3 quadrants
C13_Witness ==
    /\ last.kind = "predict_next"
    /\ observed = 4
    /\ last.value.prediction_type = "UNSURE"
    /\ posteriori_cache # EmptyMap

\* C9: the confidence predict_next returns for a pattern never decreases from
\* one call to a later one, and neither does the occurrence count of a
\* pattern nor the frequency persisted for it.
C9_ConfidenceNonDecreasing ==
    [][ /\ \A k \in DOMAIN predicted :
             k \in DOMAIN predicted' /\ predicted'[k] >= predicted[k]
        /\ \A k \in DOMAIN pattern_cache :
             k \in DOMAIN pattern_cache' /\ pattern_cache'[k] >= pattern_cache[k]
        /\ \A k \in DOMAIN posteriori_cache :
             /\ k \in DOMAIN posteriori_cache'
             /\ posteriori_cache'[k].frequency >= posteriori_cache[k].frequency ]_vars

\* a pattern was counted more than once and a persisted prediction returned
C9_Witness ==
    /\ \E k \in DOMAIN pattern_cache : pattern_cache[k] >= 2
    /\ last.kind = "predict_next"
    /\ last.value.prediction_type = "QUADRANT_TRANSITION"
    /\ LookupPatternKey(sequence_buffer) \in DOMAIN predicted

(***************************************************************************)
(* _synthesize_logic_triad and _calculate_convergence called directly, on  *)
(* every combination of arguments drawn from the sets below.               *)
(***************************************************************************)
\* what check_necessity returns over the field maps
NecessityResults ==
    {check_necessity(f) : f \in {EmptyField, SparseField, SymmetricField, DenseField, StrayField}}

\* a persisted prediction of the given frequency (thousandths)
PersistedPrediction(frequency) ==
    [ prediction_type |-> "QUADRANT_TRANSITION", target |-> "NW",
      confidence |-> frequency, hume_vivacity |-> Min((frequency * 12) \div 10, 1000) ]

InductivePredictions ==
    {NoPrediction, UnsurePrediction} \cup {PersistedPrediction(f) : f \in {100, 400, 1000}}

\* live density, breach density and the two thresholds
EngineViews ==
    [live : {0, 2, 60}, breach : {0, 60}, purge : {2, 55}, max : {60, 100}]

\* posteriors below, at and above the thresholds 0.55 and 0.45
PosteriorViews ==
    [ habit : {ZeroFraction, Fraction(55, 1), Fraction(60, 1)},
      jump : {Fraction(30, 1), Fraction(45, 1), Fraction(46, 1)},
      guard : {Fraction(70, 1)} ]

\* len(shadows) and the magnitude of the thought vector (tenths)
ShadowCounts == {0, 2, 3, 4}

Magnitudes == {0, 50, 200, 300}

DirectInputs ==
    [ op : {"input"}, inductive : InductivePredictions, intuitive : NecessityResults,
      engine : EngineViews, posts : PosteriorViews, induced : {NoneValue},
      logic_state : {NoneValue},
      n_shadows : {0}, magnitude : {0}, confidence : {0} ]

InitFunctions ==
    /\ Constructed
    /\ field_map = EmptyField
    /\ direct \in DirectInputs
    /\ bridge = NoneValue

\* _synthesize_logic_triad(inductive, intuitive, bayes_shadows); induced is
\* the state as it is after line 648, when the necessity jump did not return
SynthesizeLogicTriad ==
    /\ direct.op = "input"
    /\ direct' = [direct EXCEPT !.op = "synthesized",
                                !.induced = InductiveState(
                                    InitialLogicState(Max(direct.engine.live,
                                                          direct.engine.breach)),
                                    direct.inductive),
                                !.logic_state = synthesize_logic_triad(
                                    direct.inductive, direct.intuitive, EmptyMap,
                                    direct.engine, direct.posts)]
    /\ UNCHANGED << tracker_vars, crystals, bayes, proprioception, engine_vars, clock,
                    shadow_calls, last, predicted, observed, arrivals, threads, bridge >>

\* _calculate_convergence(shadows, logic, thought_vec)
CalculateConvergence(n_shadows, magnitude) ==
    /\ direct.op = "synthesized"
    /\ direct' = [direct EXCEPT !.op = "scored",
                                !.n_shadows = n_shadows,
                                !.magnitude = magnitude,
                                !.confidence = calculate_convergence(
                                    n_shadows, direct.logic_state, magnitude)]
    /\ UNCHANGED << tracker_vars, crystals, bayes, proprioception, engine_vars, clock,
                    shadow_calls, last, predicted, observed, arrivals, threads, bridge >>

NextFunctions ==
    \/ SynthesizeLogicTriad
    \/ \E n \in ShadowCounts, m \in Magnitudes : CalculateConvergence(n, m)

SpecFunctions == InitFunctions /\ [][NextFunctions]_vars

\* C1: a synthesis whose field density (the larger of the live and the breach
\* density) is at or above the purge trigger threshold never resolves mode
\* GUARD, whatever the necessity result, the prediction and the posteriors.
C1_NoGuardAtPurgeDensity ==
    (direct.op \in {"synthesized", "scored"}
       /\ direct.logic_state.field_density >= direct.engine.purge) =>
        /\ direct.logic_state.active_mode \in Modes
        /\ direct.logic_state.active_mode # "GUARD"

\* the purge rule alone kept the mode from GUARD: no jump, no prediction, no
\* posterior above its threshold, density below the emergency level
C1_Witness ==
    /\ direct.op = "synthesized"
    /\ direct.logic_state.field_density >= direct.engine.purge
    /\ direct.inductive = NoPrediction
    /\ ~direct.intuitive.jump_triggered
    /\ direct.logic_state.active_mode = "GUARD-HABIT"
    /\ direct.logic_state.density_penalty = 10

\* C6: the confidence is at least 0.85 and at most 0.99.
C6_ConfidenceBounds ==
    direct.op = "scored" => (direct.confidence >= 8500 /\ direct.confidence <= 9900)

\* the cap applied: a jump with 3 shadows and a saturated magnitude sums to 1.03
C6_Witness ==
    /\ direct.op = "scored"
    /\ direct.logic_state.intuitive_jump_triggered
    /\ direct.n_shadows >= 3
    /\ direct.magnitude >= 200
    /\ direct.confidence = 9900

\* a direct synthesis without a necessity jump in which none of the density
\* and posterior rules of lines 662-679 has its condition met
NoRuleApplies ==
    /\ direct.op \in {"synthesized", "scored"}
    /\ ~direct.intuitive.jump_triggered
    /\ Max(direct.engine.live, direct.engine.breach) < direct.engine.purge
    /\ Max(direct.engine.live, direct.engine.breach) * 100 < direct.engine.max * 95
    /\ ~Exceeds(direct.posts.habit, 55)
    /\ ~Exceeds(direct.posts.jump, 45)

\* the mode lines 627-648 leave when the detector did not trigger
ModeOfPrediction(inductive) ==
    IF inductive = NoPrediction THEN "GUARD"
    ELSE IF inductive.confidence > 350 THEN "HABIT" ELSE "GUARD-HABIT"

\* C21 (as amended): when the necessity detector did not trigger, the mode
\* before the density and posterior rules apply is HABIT if there is an
\* inductive prediction and its confidence is > 0.35, GUARD-HABIT if there is
\* one and its confidence is at most 0.35, and GUARD when predict_next
\* returned no prediction; it is the resolved mode when no rule applies.
C21_ModeBeforeRules ==
    (direct.op \in {"synthesized", "scored"} /\ ~direct.intuitive.jump_triggered) =>
        /\ direct.induced.active_mode = ModeOfPrediction(direct.inductive)
        /\ NoRuleApplies => direct.logic_state.active_mode = ModeOfPrediction(direct.inductive)

\* no prediction, no jump, no rule: the mode is GUARD
C21_Witness ==
    /\ NoRuleApplies
    /\ direct.inductive = NoPrediction
    /\ direct.induced.active_mode = "GUARD"
    /\ direct.logic_state.active_mode = "GUARD"

\* C21 as stated: HABIT above 0.35, GUARD-HABIT in every other case
C21_Original ==
    (direct.op \in {"synthesized", "scored"} /\ ~direct.intuitive.jump_triggered) =>
        direct.induced.active_mode =
            IF direct.inductive.confidence > 350 THEN "HABIT" ELSE "GUARD-HABIT"

C23_EmergencyJump ==
    (direct.op \in {"synthesized", "scored"}
       /\ Max(direct.engine.live, direct.engine.breach) * 100 >= direct.engine.max * 95) =>
        /\ direct.logic_state.active_mode = "INTUITION-JUMP"
        /\ ~direct.intuitive.jump_triggered => direct.logic_state.density_penalty = 15

\* the density is at the purge trigger threshold and at the emergency level,
\* the prediction is the UNSURE default, the habit posterior is above 0.55
\* and the jump posterior is not above 0.45
C23_Witness ==
    /\ direct.op = "synthesized"
    /\ ~direct.intuitive.jump_triggered
    /\ direct.inductive = UnsurePrediction
    /\ direct.engine.live >= direct.engine.purge
    /\ direct.engine.live * 100 >= direct.engine.max * 95
    /\ Exceeds(direct.posts.habit, 55)
    /\ ~Exceeds(direct.posts.jump, 45)
    /\ direct.logic_state.active_mode = "INTUITION-JUMP"
    /\ direct.logic_state.density_penalty = 15

\* C24: with no necessity jump, a jump_necessary posterior above 0.45
\* resolves INTUITION-JUMP whatever the density, the prediction and the habit
\* posterior; otherwise a density below 0.95 x max_field_density with a
\* habit_continues posterior above 0.55 resolves HABIT, also where the purge
\* rule had forced GUARD-HABIT.
C24_PosteriorRulesLast ==
    (direct.op \in {"synthesized", "scored"} /\ ~direct.intuitive.jump_triggered) =>
        /\ Exceeds(direct.posts.jump, 45) =>
              direct.logic_state.active_mode = "INTUITION-JUMP"
        /\ ( /\ ~Exceeds(direct.posts.jump, 45)
             /\ Max(direct.engine.live, direct.engine.breach) * 100 < direct.engine.max * 95
             /\ Exceeds(direct.posts.habit, 55) ) =>
              direct.logic_state.active_mode = "HABIT"

\* a prediction of confidence 1.0 had set HABIT and the jump posterior 0.46
\* resolved INTUITION-JUMP
C24_Witness ==
    /\ direct.op = "synthesized"
    /\ ~direct.intuitive.jump_triggered
    /\ direct.inductive.confidence = 1000
    /\ direct.induced.active_mode = "HABIT"
    /\ Max(direct.engine.live, direct.engine.breach) * 100 < direct.engine.max * 95
    /\ Exceeds(direct.posts.jump, 45)
    /\ direct.logic_state.active_mode = "INTUITION-JUMP"
    /\ direct.logic_state.density_penalty = 0

(***************************************************************************)
(* _update_bayesian_outcome called directly on the logic state a synthesis *)
(* returned.                                                               *)
(***************************************************************************)
\* _update_bayesian_outcome(logic_state)
UpdateBayesianOutcome ==
    /\ direct.op = "synthesized"
    /\ direct' = [direct EXCEPT !.op = "fed"]
    /\ bayes' = update_bayesian_outcome(bayes, direct.logic_state)
    /\ last' = [ kind |-> "update_bayesian_outcome", stimulus |-> NoneValue,
                 value |-> NoneValue, outcomes |-> OutcomeCalls(direct.logic_state) ]
    /\ UNCHANGED << tracker_vars, crystals, proprioception, engine_vars, clock,
                    shadow_calls, predicted, observed, arrivals, threads, bridge >>

NextOutcome == SynthesizeLogicTriad \/ UpdateBayesianOutcome

SpecOutcome == InitFunctions /\ [][NextOutcome]_vars

\* the hypotheses that received a success outcome in the last call
Succeeded == { last.outcomes[i].hypothesis : i \in {j \in 1..Len(last.outcomes) :
                                                       last.outcomes[j].success} }

\* C35: in every full cycle at most one of habit_continues, jump_necessary
\* and guard_sufficient receives a success outcome, and the others receive
\* a failure outcome.
C35_AtMostOneSuccess ==
    direct.op = "fed" =>
        /\ Cardinality(Succeeded) <= 1
        /\ \A h \in Hypotheses \ Succeeded :
              \E i \in 1..Len(last.outcomes) :
                  last.outcomes[i].hypothesis = h /\ ~last.outcomes[i].success
        /\ bayes = FeedOutcomes(initialize_bayesian_priors, last.outcomes)

\* a cycle resolved to HABIT over a prediction of confidence 1.0: the habit
\* succeeded, the jump and the guard failed
C35_Witness ==
    /\ direct.op = "fed"
    /\ direct.logic_state.active_mode = "HABIT"
    /\ direct.inductive.confidence = 1000
    /\ Succeeded = {"habit_continues"}
    /\ Len(last.outcomes) = 3

(***************************************************************************)
(* _update_bayesian_shadows called directly.  The millisecond the clock of *)
(* the machine shows, int(time.time() * 1000), is an input of each call:   *)
(* it never goes back, and it need not have changed since the last call.   *)
(***************************************************************************)
\* the evidence ids a call at millisecond ms adds that are already recorded
RepeatedEvidence(b, ms, shadows) ==
    { m \in DOMAIN shadows :
        /\ PersistenceHypothesis(m) \in DOMAIN b.evidence
        /\ \E e \in b.evidence[PersistenceHypothesis(m)] : e.id = StimEvidenceId(ms, m) }

\* _update_bayesian_shadows(shadows) at millisecond ms
UpdateBayesianShadows(shadows, ms) ==
    /\ clock < MaxCalls
    /\ clock' = clock + 1
    /\ IF direct = NoneValue THEN TRUE ELSE ms >= direct.ms
    /\ bayes' = update_bayesian_shadows(bayes, ms, shadows)
    /\ direct' = [ op |-> "update_bayesian_shadows", ms |-> ms, shadows |-> shadows,
                   repeated |-> RepeatedEvidence(bayes, ms, shadows) ]
    /\ UNCHANGED << tracker_vars, crystals, proprioception, engine_vars, shadow_calls, last,
                    predicted, observed, arrivals, threads, bridge >>

NextShadows ==
    \E shadows \in {FullShadows, TwoShadows, [m \in {"spinoza"} |-> FullShadows[m]]},
       ms \in 1..MaxCalls :
        UpdateBayesianShadows(shadows, ms)

SpecShadows == InitHabit /\ [][NextShadows]_vars

\* C37: the evidence ids added for a perspective hypothesis in distinct
\* cycles are distinct: no add_evidence call of _update_bayesian_shadows
\* repeats an evidence id already recorded for that hypothesis, also when
\* two cycles run within the same millisecond.
C37_DistinctEvidenceIds ==
    direct # NoneValue => direct.repeated = {}

(***************************************************************************)
(* Collaborators that raise.  cognitively_emerge calls its collaborators   *)
(* outside any try block, so an exception raised by one of them leaves the *)
(* call at that line, after the statements before it have run.             *)
(***************************************************************************)
\* the collaborators called in a cycle, in the order of their first call:
\* gravity_bridge.process_stimulus (line 358), engine.map_adjacency (381),
\* vaults.lightning_query (390), tribunal.generate_epistemic_shadow (396)
Collaborators == {"gravity_bridge", "engine", "vaults", "tribunal"}

Raised(collaborator) == [kind |-> "exception", collaborator |-> collaborator]

\* cognitively_emerge(stimulus) when the collaborator raises
EmergeRaises(stimulus, collaborator) ==
    /\ clock < MaxCalls
    /\ clock' = clock + 1
    /\ check_sovereignty(stimulus)
    /\ collaborator = "tribunal" => lightning_query(crystals, stimulus) = NoneValue
    /\ LET rec == RecordObservationResult(sequence_buffer, pattern_cache, posteriori_cache,
                                          stimulus)
           inductive == Inductive(check_necessity(field_map), rec.buffer, rec.posteriori)
       IN  /\ sequence_buffer' = rec.buffer
           /\ pattern_cache' = rec.cache
           /\ posteriori_cache' = rec.posteriori
           /\ predicted' = IF collaborator \in {"gravity_bridge", "engine"} THEN predicted
                           ELSE NotePrediction(predicted, rec.buffer, inductive)
    /\ observed' = IF stimulus.type = "cursor_movement" THEN observed + 1 ELSE observed
    /\ arrivals' = Arrived(arrivals, stimulus)
    /\ proprioception' = IF collaborator = "gravity_bridge" THEN proprioception
                         ELSE AfterPhysics(stimulus)
    /\ last' = Called("raised", stimulus, Raised(collaborator))
    /\ UNCHANGED << crystals, bayes, shadow_calls, engine_vars >>

NextFault ==
    \/ \E stimulus \in ControllerStimuli :
         CognitivelyEmerge(stimulus) /\ UNCHANGED other_vars
    \/ \E stimulus \in ControllerStimuli, collaborator \in Collaborators :
         EmergeRaises(stimulus, collaborator) /\ UNCHANGED other_vars
    \/ EdgeCutterPurge

SpecFault == Init /\ [][NextFault]_vars

\* C10: every call of cognitively_emerge returns a Thought, a cached result
\* or None; no exception leaves it.
C10_NoExceptionEscapes ==
    last.kind \in {"init", "thought", "bypass", "rejected"}

(***************************************************************************)
(* The bridge process: the stdin message loop and the speech recognition   *)
(* thread call cognitively_emerge on the one controller, with no lock.  A  *)
(* cycle is split where it calls out to a collaborator: the thread may be  *)
(* switched there.                                                         *)
(***************************************************************************)
\* the stimuli a thread submits: _main builds cursor_movement and text_query
\* stimuli from the messages on stdin, _speech_loop speech_query stimuli
ThreadStimuli(t) ==
    IF t = "main" THEN {TestStimulus, TextStimulus} ELSE {SpeechStimulus}

InCycle(t) == threads[t].pc # "idle"

\* lines 350-394: up to the bypass check
Begin(t, stimulus) ==
    /\ ~InCycle(t)
    /\ clock < MaxCycles
    /\ clock' = clock + 1
    /\ check_sovereignty(stimulus)
    /\ Perceive(stimulus)
    /\ LET rec == RecordObservationResult(sequence_buffer, pattern_cache, posteriori_cache,
                                          stimulus)
           inductive == Inductive(check_necessity(field_map), rec.buffer, rec.posteriori)
       IN  IF lightning_query(crystals, stimulus) # NoneValue
           THEN /\ last' = Called("bypass", stimulus, lightning_query(crystals, stimulus))
                /\ UNCHANGED threads
           ELSE /\ threads' = [threads EXCEPT ![t] = [Idle EXCEPT !.pc = "tribunal",
                                                                  !.stimulus = stimulus,
                                                                  !.inductive = inductive]]
                /\ UNCHANGED last
    /\ UNCHANGED << crystals, bayes, shadow_calls, engine_vars, direct, bridge >>

\* lines 396-397: the shadows come back and are added as evidence
Shadows(t, shadows) ==
    /\ threads[t].pc = "tribunal"
    /\ shadow_calls' = ShadowGenerated(shadow_calls, threads[t].stimulus)
    /\ bayes' = update_bayesian_shadows(bayes, clock, shadows)
    /\ threads' = [threads EXCEPT ![t].pc = "synthesize", ![t].shadows = shadows]
    /\ UNCHANGED << tracker_vars, crystals, proprioception, engine_vars, clock, last,
                    predicted, observed, arrivals, direct, bridge >>

\* a synthesis whose read of the habit posterior also feeds an outcome back
Synthesize_feeding(t) ==
    /\ threads[t].pc = "synthesize"
    /\ threads' = [threads EXCEPT
                     ![t].pc = "outcome",
                     ![t].logic_state = synthesize_logic_triad(
                         threads[t].inductive, check_necessity(field_map),
                         bayes_view(bayes, threads[t].shadows), EngineView,
                         Posteriors(bayes))]
    /\ bayes' = update_with_outcome(bayes, "habit_continues", TRUE, 70)
    /\ UNCHANGED << tracker_vars, crystals, proprioception, engine_vars, clock,
                    shadow_calls, last, predicted, observed, arrivals, direct, bridge >>

\* line 399: the mode is synthesized from the posteriors as they are now
Synthesize(t) ==
    /\ threads[t].pc = "synthesize"
    /\ threads' = [threads EXCEPT
                     ![t].pc = "outcome",
                     ![t].logic_state = synthesize_logic_triad(
                         threads[t].inductive, check_necessity(field_map),
                         bayes_view(bayes, threads[t].shadows), EngineView,
                         Posteriors(bayes))]
    /\ UNCHANGED << tracker_vars, crystals, bayes, proprioception, engine_vars, clock,
                    shadow_calls, last, predicted, observed, arrivals, direct, bridge >>

\* lines 401-461: the confidence, the outcome feedback, the crystal, the return
Outcome(t, magnitude) ==
    /\ threads[t].pc = "outcome"
    /\ LET logic_state == threads[t].logic_state
           confidence == calculate_convergence(Cardinality(DOMAIN threads[t].shadows),
                                               logic_state, magnitude)
           thought == Thought(threads[t].shadows, logic_state, confidence)
       IN  /\ bayes' = update_bayesian_outcome(bayes, logic_state)
           /\ crystals' = Crystallized(crystals, threads[t].stimulus, thought)
           /\ last' = Returned(threads[t].stimulus, thought)
    /\ threads' = [threads EXCEPT ![t] = Idle]
    /\ UNCHANGED << tracker_vars, proprioception, engine_vars, clock, shadow_calls,
                    predicted, observed, arrivals, direct, bridge >>

NextThreads ==
    \E t \in Threads :
        \/ \E stimulus \in ThreadStimuli(t) : Begin(t, stimulus)
        \/ \E response \in Responses : Shadows(t, response.shadows)
        \/ Synthesize(t)
        \/ \E response \in Responses : Outcome(t, thought_magnitude(field_map, response))

SpecThreads == Init /\ [][NextThreads]_vars

\* C5: while a thread is inside a cycle, a step of another thread changes
\* neither the ring buffer, the pattern occurrence cache nor the beliefs.
C5_CyclesDoNotInterleave ==
    [][ \A t \in Threads :
          (InCycle(t) /\ threads'[t] = threads[t]) =>
              UNCHANGED << sequence_buffer, pattern_cache, bayes >> ]_vars

StepStimuli == {TestStimulus, TextStimulus} \cup ProbeStimuli

\* lines 353-354: the call is rejected
Reject(stimulus) ==
    /\ ~InCycle("main")
    /\ clock < MaxCycles
    /\ clock' = clock + 1
    /\ Rejected(stimulus)
    /\ UNCHANGED << engine_vars, other_vars >>

\* lines 401-408: confidence scoring
Score(t, magnitude) ==
    /\ threads[t].pc = "outcome"
    /\ threads' = [threads EXCEPT
                     ![t].pc = "envelope",
                     ![t].confidence = calculate_convergence(
                         Cardinality(DOMAIN threads[t].shadows), threads[t].logic_state,
                         magnitude)]
    /\ UNCHANGED << tracker_vars, crystals, bayes, proprioception, engine_vars, clock,
                    shadow_calls, last, predicted, observed, arrivals, direct, bridge >>

\* lines 410-439: the thought is built and the envelope assembled
Assemble(t) ==
    /\ threads[t].pc = "envelope"
    /\ threads' = [threads EXCEPT
                     ![t].pc = "feedback",
                     ![t].thought = Thought(threads[t].shadows, threads[t].logic_state,
                                            threads[t].confidence)]
    /\ UNCHANGED << tracker_vars, crystals, bayes, proprioception, engine_vars, clock,
                    shadow_calls, last, predicted, observed, arrivals, direct, bridge >>

\* line 441: the outcome is fed back into the belief updater
Feed(t) ==
    /\ threads[t].pc = "feedback"
    /\ bayes' = update_bayesian_outcome(bayes, threads[t].logic_state)
    /\ threads' = [threads EXCEPT ![t].pc = "crystallize"]
    /\ UNCHANGED << tracker_vars, crystals, proprioception, engine_vars, clock,
                    shadow_calls, last, predicted, observed, arrivals, direct, bridge >>

\* lines 443-453: the result is crystallized under the stimulus
Persist(t) ==
    /\ threads[t].pc = "crystallize"
    /\ crystals' = Crystallized(crystals, threads[t].stimulus, threads[t].thought)
    /\ threads' = [threads EXCEPT ![t].pc = "return"]
    /\ UNCHANGED << tracker_vars, bayes, proprioception, engine_vars, clock,
                    shadow_calls, last, predicted, observed, arrivals, direct, bridge >>

\* lines 455-461: the thought is returned
Return(t) ==
    /\ threads[t].pc = "return"
    /\ last' = Returned(threads[t].stimulus, threads[t].thought)
    /\ threads' = [threads EXCEPT ![t] = Idle]
    /\ UNCHANGED << tracker_vars, crystals, bayes, proprioception, engine_vars, clock,
                    shadow_calls, predicted, observed, arrivals, direct, bridge >>

NextSteps ==
    \/ \E stimulus \in StepStimuli : Reject(stimulus)
    \/ \E stimulus \in StepStimuli : Begin("main", stimulus)
    \/ \E response \in Responses : Shadows("main", response.shadows)
    \/ Synthesize("main")
    \/ \E response \in Responses : Score("main", thought_magnitude(field_map, response))
    \/ Assemble("main")
    \/ Feed("main")
    \/ Persist("main")
    \/ Return("main")

SpecSteps == Init /\ [][NextSteps]_vars

\* the step the main thread takes, by the positions before and after it
StepFrom(before, after) == threads["main"].pc = before /\ threads'["main"].pc = after

\* C30: in every full cycle the steps occur in the order mode synthesis,
\* confidence scoring, envelope assembly, outcome feedback, crystallize under
\* the stimulus, return; the crystallize happens exactly once per full cycle,
\* records the resolved mode as triad_c_mode, and does not happen in a
\* rejected or bypassed cycle.
C30_StepOrder ==
    [][ LET cycle == threads["main"]
        IN  /\ threads'["main"].pc = "outcome" => cycle.pc \in {"synthesize", "outcome"}
            /\ threads'["main"].pc = "envelope" => cycle.pc \in {"outcome", "envelope"}
            /\ threads'["main"].pc = "feedback" => cycle.pc \in {"envelope", "feedback"}
            /\ threads'["main"].pc = "crystallize" => cycle.pc \in {"feedback", "crystallize"}
            /\ threads'["main"].pc = "return" => cycle.pc \in {"crystallize", "return"}
            /\ threads'["main"].confidence # cycle.confidence =>
                   StepFrom("outcome", "envelope") \/ StepFrom("return", "idle")
            /\ threads'["main"].thought # cycle.thought =>
                   StepFrom("envelope", "feedback") \/ StepFrom("return", "idle")
            /\ (cycle.pc \notin {"idle", "tribunal"} /\ bayes' # bayes) =>
                   StepFrom("feedback", "crystallize")
            /\ StepFrom("feedback", "crystallize") => last'.kind # "thought" \/ last' = last
            /\ crystals' # crystals => StepFrom("crystallize", "return")
            /\ StepFrom("crystallize", "return") =>
                   /\ cycle.stimulus \notin DOMAIN crystals
                   /\ DOMAIN crystals' = DOMAIN crystals \cup {cycle.stimulus}
                   /\ crystals'[cycle.stimulus].triad_c_mode = cycle.logic_state.active_mode
                   /\ \A k \in DOMAIN crystals : crystals'[k] = crystals[k]
            /\ last' # last =>
                   \/ StepFrom("return", "idle") /\ last'.kind = "thought"
                                                  /\ last'.stimulus \in DOMAIN crystals
                   \/ cycle.pc = "idle" /\ last'.kind \in {"bypass", "rejected"}
                                         /\ UNCHANGED << crystals, threads >> ]_vars

\* a full cycle returned a thought resolved to HABIT, crystallized under its
\* stimulus, after a rejected call
C30_Witness ==
    /\ last.kind = "thought"
    /\ threads["main"].pc = "idle"
    /\ last.value.logic_validity.active_mode = "HABIT"
    /\ crystals[last.stimulus].triad_c_mode = "HABIT"
    /\ clock >= 2
    /\ Cardinality(DOMAIN crystals) = 1

(***************************************************************************)
(* _glyph_trace called directly.  A dict is kept as the sequence of its    *)
(* (key, value) pairs in insertion order, a value as its JSON text; a      *)
(* string is kept as the sequence of its parts.                            *)
(***************************************************************************)
\* the keys of the dicts traced, in the order sort_keys puts them
KeyOrder == <<"coordinates", "type">>

\* serialization in insertion order
canonical_unsorted(dict) == dict

\* json.dumps(stimulus, sort_keys=True, default=str)
canonical(dict) ==
    LET HasKey(key) == \E i \in 1..Len(dict) : dict[i][1] = key
        ValueOf(key) == dict[CHOOSE i \in 1..Len(dict) : dict[i][1] = key][2]
        keys == SelectSeq(KeyOrder, HasKey)
    IN  [i \in 1..Len(keys) |-> <<keys[i], ValueOf(keys[i])>>]

\* hashlib.sha256(payload).hexdigest(), taken as injective
sha256(payload) == [sha256 |-> payload]

\* _glyph_trace
glyph_trace(stimulus, stardate) == sha256(<<stardate, ":", canonical(stimulus)>>)

\* dicts of one and of two keys, the latter in both insertion orders
GlyphDicts ==
    LET TypeTexts == {"cursor_movement", "text_query"}
        CoordinateTexts == {"[0, 0]", "[100, 200]"}
    IN  {<<<<"type", t>>>> : t \in TypeTexts}
        \cup {<<<<"type", t>>, <<"coordinates", c>>>> : t \in TypeTexts, c \in CoordinateTexts}
        \cup {<<<<"coordinates", c>>, <<"type", t>>>> : t \in TypeTexts, c \in CoordinateTexts}

InitGlyph ==
    /\ Constructed
    /\ field_map = EmptyField
    /\ direct \in [ op : {"input"}, first : GlyphDicts, second : GlyphDicts,
                     first_time : {1, 2}, second_time : {1, 2},
                     first_trace : {NoneValue}, second_trace : {NoneValue} ]
    /\ bridge = NoneValue

\* two calls of _glyph_trace
GlyphTrace ==
    /\ direct.op = "input"
    /\ direct' = [direct EXCEPT !.op = "traced",
                                !.first_trace = glyph_trace(direct.first, direct.first_time),
                                !.second_trace = glyph_trace(direct.second, direct.second_time)]
    /\ UNCHANGED << tracker_vars, crystals, bayes, proprioception, engine_vars, clock,
                    shadow_calls, last, predicted, observed, arrivals, threads, bridge >>

SpecGlyph == InitGlyph /\ [][GlyphTrace]_vars

\* the content of a dict: its set of (key, value) pairs
Items(dict) == {dict[i] : i \in 1..Len(dict)}

\* C12: two glyph traces are equal exactly when the timestamps are equal and
\* the stimuli hold the same keys with the same values, in whatever order
\* the keys were inserted.
C12_GlyphTraceDeterministic ==
    direct.op = "traced" =>
        ( direct.first_trace = direct.second_trace
          <=> ( direct.first_time = direct.second_time
                /\ Items(direct.first) = Items(direct.second) ) )

\* two stimuli that differ in key order only got the same trace
C12_Witness ==
    /\ direct.op = "traced"
    /\ direct.first # direct.second
    /\ Len(direct.first) = 2
    /\ direct.first_trace = direct.second_trace


(***************************************************************************)
(* The bridge process of floating_assistant_orb.py: _main, which starts    *)
(* the orb, prints ready and answers the lines of stdin, and the speech    *)
(* recognition thread start() launches when a microphone is there.  stdout *)
(* is the sequence of the lines written, a JSON line kept as its type, any *)
(* other line as "text".  One cognitively_emerge call is one step.         *)
(***************************************************************************)
\* the lines _main and the speech thread print with json.dumps
JsonLines ==
    { "ready", "cognitive_pulse", "status_response", "query_result", "shutdown_ack",
      "speech_pulse", "verbal_command" }

\* what cognitively_emerge prints: lines 619, 393, 457
Narrated(out) == Append(out, "text")

\* the bridge after orb.start() (line 288): the controller has printed its
\* three lines, running is True, the speech thread runs if there is a mic
Started(mic) ==
    [ pc |-> "started", running |-> TRUE, speech |-> IF mic THEN "top" ELSE "absent",
      handled |-> <<>>, stdout |-> <<"text", "text", "text">> ]

InitBridge ==
    /\ Constructed
    /\ field_map = EmptyField
    /\ direct = NoneValue
    /\ \E mic \in BOOLEAN : bridge = Started(mic)

\* line 304
Ready ==
    /\ bridge.pc = "started"
    /\ bridge' = [bridge EXCEPT !.pc = "loop", !.stdout = Append(@, "ready")]
    /\ UNCHANGED << tracker_vars, crystals, bayes, proprioception, engine_vars, clock,
                    shadow_calls, last, predicted, observed, arrivals, direct, threads >>

\* line 306: the loop takes the next line of stdin
Reads(line) ==
    /\ bridge.pc = "loop"
    /\ Len(bridge.handled) < MaxLines

\* lines 307-310, and a message of a type the loop does not know: no output
Skipped(line) ==
    /\ Reads(line)
    /\ bridge' = [bridge EXCEPT !.handled = Append(@, line)]
    /\ UNCHANGED << tracker_vars, crystals, bayes, proprioception, engine_vars, clock,
                    shadow_calls, last, predicted, observed, arrivals, direct, threads >>

\* line 312: the line is JSON and not an object, msg.get raises outside the try
NotAnObject ==
    /\ Reads("not_object")
    /\ bridge' = [bridge EXCEPT !.handled = Append(@, "not_object"), !.pc = "raised"]
    /\ UNCHANGED << tracker_vars, crystals, bayes, proprioception, engine_vars, clock,
                    shadow_calls, last, predicted, observed, arrivals, direct, threads >>

\* lines 314-317 and stop(): running is cleared, the threads are waited for
\* one second each, shutdown_ack is printed, the loop is left
Shutdown ==
    /\ Reads("shutdown")
    /\ bridge' = [bridge EXCEPT !.handled = Append(@, "shutdown"), !.running = FALSE,
                                !.stdout = Append(@, "shutdown_ack"), !.pc = "acked"]
    /\ UNCHANGED << tracker_vars, crystals, bayes, proprioception, engine_vars, clock,
                    shadow_calls, last, predicted, observed, arrivals, direct, threads >>

\* lines 319-322 and process_cursor_movement: a pulse is printed if the
\* controller returned something
CursorMove(stimulus) ==
    /\ Reads("cursor_move")
    /\ CognitivelyEmerge(stimulus)
    /\ bridge' = [bridge EXCEPT
                    !.handled = Append(@, "cursor_move"),
                    !.stdout = IF last'.value = NoneValue
                               THEN Narrated(@)
                               ELSE Append(Narrated(@), "cognitive_pulse")]
    /\ UNCHANGED << direct, threads >>

\* lines 324-327
GetStatus ==
    /\ Reads("get_status")
    /\ bridge' = [bridge EXCEPT !.handled = Append(@, "get_status"),
                                !.stdout = Append(@, "status_response")]
    /\ UNCHANGED << tracker_vars, crystals, bayes, proprioception, engine_vars, clock,
                    shadow_calls, last, predicted, observed, arrivals, direct, threads >>

\* lines 329-358
Query ==
    /\ Reads("query")
    /\ CognitivelyEmerge(TextStimulus)
    /\ bridge' = [bridge EXCEPT
                    !.handled = Append(@, "query"),
                    !.stdout = Append(Narrated(@), "query_result")]
    /\ UNCHANGED << direct, threads >>

\* lines 322 and 338: a collaborator raises inside cognitively_emerge and
\* nothing between the call and the loop catches the exception
HandlerRaises(line, stimulus, collaborator) ==
    /\ Reads(line)
    /\ EmergeRaises(stimulus, collaborator)
    /\ bridge' = [bridge EXCEPT !.handled = Append(@, line), !.pc = "raised"]
    /\ UNCHANGED << direct, threads >>

\* _main returns or is left by an exception: the process ends, and its
\* daemon threads with it
ProcessExit ==
    /\ bridge.pc \in {"acked", "raised"}
    /\ bridge' = [bridge EXCEPT !.pc = "exited"]
    /\ UNCHANGED << tracker_vars, crystals, bayes, proprioception, engine_vars, clock,
                    shadow_calls, last, predicted, observed, arrivals, direct, threads >>

\* _speech_loop, line 118: running is read at the top of the loop
SpeechLoop ==
    /\ bridge.pc # "exited"
    /\ bridge.speech = "top"
    /\ bridge' = [bridge EXCEPT !.speech = IF bridge.running THEN "recording" ELSE "ended"]
    /\ UNCHANGED << tracker_vars, crystals, bayes, proprioception, engine_vars, clock,
                    shadow_calls, last, predicted, observed, arrivals, direct, threads >>

\* lines 121-133: the chunk recorded holds no speech
SpeechSilent ==
    /\ bridge.pc # "exited"
    /\ bridge.speech = "recording"
    /\ bridge' = [bridge EXCEPT !.speech = "top"]
    /\ UNCHANGED << tracker_vars, crystals, bayes, proprioception, engine_vars, clock,
                    shadow_calls, last, predicted, observed, arrivals, direct, threads >>

\* lines 133-161: a transcription, a verbal command or not, goes through
\* _process_verbal_command and cognitively_emerge, and a pulse is printed
SpeechHeard(command) ==
    /\ bridge.pc # "exited"
    /\ bridge.speech = "recording"
    /\ CognitivelyEmerge(SpeechStimulus)
    /\ bridge' = [bridge EXCEPT
                    !.speech = "top",
                    !.stdout = Append(Narrated(IF command THEN Append(@, "verbal_command")
                                                          ELSE @),
                                      "speech_pulse")]
    /\ UNCHANGED << direct, threads >>

NextBridge ==
    \/ Ready
    \/ \E line \in {"not_json", "unknown_type"} : Skipped(line)
    \/ NotAnObject
    \/ Shutdown
    \/ \E stimulus \in CursorStimuli : CursorMove(stimulus)
    \/ GetStatus
    \/ Query
    \/ HandlerRaises("query", TextStimulus, "tribunal")
    \/ \E stimulus \in CursorStimuli : HandlerRaises("cursor_move", stimulus, "engine")
    \/ ProcessExit
    \/ SpeechLoop
    \/ SpeechSilent
    \/ \E command \in BOOLEAN : SpeechHeard(command)

SpecBridge == InitBridge /\ [][NextBridge]_vars

(***************************************************************************)
(* The orb object alone: constructed, started at most once, stopped at any *)
(* time, with its two background threads.  A thread is absent, at the top  *)
(* of its loop, inside the body, or ended.                                 *)
(***************************************************************************)
\* CALIFloatingOrb.__init__: running is False, no thread exists
InitOrb ==
    /\ Constructed
    /\ field_map = EmptyField
    /\ direct = NoneValue
    /\ \E mic \in BOOLEAN :
         bridge = [ pc |-> "constructed", running |-> FALSE, mic |-> mic,
                    cognitive |-> "absent", speech |-> "absent",
                    handled |-> <<>>, stdout |-> <<"text", "text", "text">> ]

\* start(): running is set, the cognitive thread is started, and the speech
\* thread if there is a microphone
Start ==
    /\ bridge.pc = "constructed"
    /\ bridge' = [bridge EXCEPT !.pc = "started", !.running = TRUE, !.cognitive = "top",
                                !.speech = IF bridge.mic THEN "top" ELSE "absent"]
    /\ UNCHANGED << tracker_vars, crystals, bayes, proprioception, engine_vars, clock,
                    shadow_calls, last, predicted, observed, arrivals, direct, threads >>

\* stop() that leaves running as it is
Stop_without_clearing ==
    /\ bridge.pc \in {"constructed", "started"}
    /\ bridge' = [bridge EXCEPT !.pc = "stopped"]
    /\ UNCHANGED << tracker_vars, crystals, bayes, proprioception, engine_vars, clock,
                    shadow_calls, last, predicted, observed, arrivals, direct, threads >>

\* stop(): running is cleared; a thread that exists is waited for, one
\* second at most, and stop returns whether or not the thread has ended
Stop ==
    /\ bridge.pc \in {"constructed", "started"}
    /\ bridge' = [bridge EXCEPT !.pc = "stopped", !.running = FALSE]
    /\ UNCHANGED << tracker_vars, crystals, bayes, proprioception, engine_vars, clock,
                    shadow_calls, last, predicted, observed, arrivals, direct, threads >>

\* _cognitive_loop, line 261: running is read at the top of the loop
CognitiveLoop ==
    /\ bridge.cognitive = "top"
    /\ bridge' = [bridge EXCEPT !.cognitive = IF bridge.running THEN "sleeping" ELSE "ended"]
    /\ UNCHANGED << tracker_vars, crystals, bayes, proprioception, engine_vars, clock,
                    shadow_calls, last, predicted, observed, arrivals, direct, threads >>

\* line 263: time.sleep(0.1) returns
CognitiveSleep ==
    /\ bridge.cognitive = "sleeping"
    /\ bridge' = [bridge EXCEPT !.cognitive = "top"]
    /\ UNCHANGED << tracker_vars, crystals, bayes, proprioception, engine_vars, clock,
                    shadow_calls, last, predicted, observed, arrivals, direct, threads >>

\* the body of the speech loop, which comes back to the top of the loop
SpeechBody == SpeechSilent \/ \E command \in BOOLEAN : SpeechHeard(command)

NextOrb ==
    \/ Start
    \/ Stop
    \/ CognitiveLoop
    \/ CognitiveSleep
    \/ SpeechLoop
    \/ SpeechSilent
    \/ \E command \in BOOLEAN : SpeechHeard(command)

SpecOrb == InitOrb /\ [][NextOrb]_vars

\* the threads are scheduled, sleep returns and the body of the speech loop
\* comes to its end
SpecOrbFair ==
    /\ SpecOrb
    /\ WF_vars(CognitiveLoop) /\ WF_vars(CognitiveSleep)
    /\ WF_vars(SpeechLoop) /\ WF_vars(SpeechBody)

Terminated(thread) == thread \in {"absent", "ended"}

\* C32: after stop() running is false, each loop that reads running at its
\* next loop-condition check ends there, and both threads eventually
\* terminate; stop() on an orb that was never started completes, too.
C32_StopTerminates ==
    /\ [](bridge.pc = "stopped" => ~bridge.running)
    /\ [][ /\ (bridge.pc = "stopped" /\ bridge.cognitive = "top"
                  /\ bridge'.cognitive # "top") => bridge'.cognitive = "ended"
           /\ (bridge.pc = "stopped" /\ bridge.speech = "top"
                  /\ bridge'.speech # "top") => bridge'.speech = "ended"
           /\ (bridge.pc = "constructed" /\ bridge'.pc = "stopped") =>
                  Terminated(bridge'.cognitive) /\ Terminated(bridge'.speech) ]_vars
    /\ (bridge.pc = "stopped") ~> (Terminated(bridge.cognitive) /\ Terminated(bridge.speech))

\* both threads of a started orb ended after stop(), the speech thread
\* having gone through a cycle
C32_Witness ==
    /\ bridge.pc = "stopped"
    /\ bridge.cognitive = "ended"
    /\ bridge.speech = "ended"
    /\ last.kind = "thought"

(***************************************************************************)
(* The worker of the UI (interface/orb_window.py), which calls             *)
(* cognitively_emerge on its own controller for every cursor position and  *)
(* emits a pulse signal.                                                   *)
(***************************************************************************)
\* CognitiveWorker.__init__
InitWorker ==
    /\ Constructed
    /\ direct = NoneValue
    /\ bridge = [pc |-> "running", emitted |-> <<>>]

\* CognitiveWorker.process_cursor(pos): a result that is not None is asked
\* for its pulse; a Thought has one, the dict of a bypass has no such
\* attribute and the call raises AttributeError
ProcessCursor(stimulus) ==
    /\ bridge.pc = "running"
    /\ CognitivelyEmerge(stimulus)
    /\ bridge' = IF last'.value = NoneValue THEN bridge
                 ELSE IF last'.kind = "thought"
                 THEN [bridge EXCEPT !.emitted = Append(@, Crystal(last'.value).predicate)]
                 ELSE [bridge EXCEPT !.pc = "raised"]
    /\ UNCHANGED << direct, threads >>

NextWorker ==
    \/ \E stimulus \in CursorStimuli \cup ProbeStimuli : ProcessCursor(stimulus)
    \/ EdgeCutterPurge

SpecWorker == InitWorker /\ [][NextWorker]_vars

\* C40: the UI worker's process_cursor handles all three result shapes of
\* cognitively_emerge without raising: it emits the pulse of a Thought,
\* passes the dict of a bypass through as the pulse, and emits nothing for
\* None.
C40_CallersHandleAllShapes ==
    /\ bridge.pc # "raised"
    /\ last.kind = "thought" =>
          bridge.emitted[Len(bridge.emitted)] = Crystal(last.value).predicate
    /\ last.kind = "bypass" => bridge.emitted[Len(bridge.emitted)] = last.value

\* the JSON lines of stdout, in the order written
JsonOutput == SelectSeq(bridge.stdout, LAMBDA written : written \in JsonLines)

\* the lines among them that the message loop writes
LoopOutput ==
    SelectSeq(bridge.stdout,
              LAMBDA written : written \in {"cognitive_pulse", "status_response",
                                            "query_result", "shutdown_ack"})

Count(lines, line) == Len(SelectSeq(lines, LAMBDA x : x = line))

\* C17: the first JSON line written to stdout is the ready message.
C17_ReadyFirst ==
    JsonOutput # <<>> => JsonOutput[1] = "ready"

\* C18: between two lines of stdin, every get_status read so far has produced
\* exactly one status_response, every query exactly one query_result, every
\* cursor_move at most one cognitive_pulse, and a line that is not JSON has
\* produced nothing and has not stopped the loop.
C18_OneResponseEach ==
    /\ Count(LoopOutput, "status_response") = Count(bridge.handled, "get_status")
    /\ Count(LoopOutput, "query_result") = Count(bridge.handled, "query")
    /\ Count(LoopOutput, "cognitive_pulse") <= Count(bridge.handled, "cursor_move")
    /\ (bridge.handled # <<>> /\ bridge.handled[Len(bridge.handled)] = "not_json") =>
          bridge.pc = "loop"

\* C19: once shutdown_ack is written it is the last line of stdout, the orb
\* is stopped and shutdown is the last line of stdin that was handled.
C19_ShutdownAckLast ==
    Count(bridge.stdout, "shutdown_ack") > 0 =>
        /\ bridge.stdout[Len(bridge.stdout)] = "shutdown_ack"
        /\ ~bridge.running
        /\ bridge.handled[Len(bridge.handled)] = "shutdown"

====
